---- MODULE Spec2Model ----
(***************************************************************************)
(* Model of the pawtner-hope backend (package main): the mutex-guarded     *)
(* in-memory repository (pets, users, pending registrations, tokens) and   *)
(* the operations and HTTP handlers that read and write it.                *)
(*                                                                         *)
(* Every critical section  mu.Lock() ... mu.Unlock()  is one atomic        *)
(* action.  A handler that takes the lock more than once, or reads shared  *)
(* state outside the lock, is split into one action per critical section   *)
(* or unlocked read, with its local variables kept in  handler[p].         *)
(*                                                                         *)
(* Identifiers produced by fmt.Sprintf("pet-%03d", n) / ("usr-%03d", n)    *)
(* are modelled by the number n: the format is injective on the naturals.  *)
(***************************************************************************)
EXTENDS Integers, Sequences, FiniteSets, TLC

\* ------------------------------------------------------------------ bounds
NumProcs == 2          \* concurrent request handlers
MaxPets == 3           \* longest pets slice explored (below maxPets)
MaxSkew == 1           \* furthest a statusCounts bucket is followed away from the live pets
MaxSteps == 6          \* pet operations and handler steps followed from the initial state
MaxAuthSteps == 8      \* the same for the authentication operations
MaxUsers == 2          \* longest users slice explored
MaxTokens == 2         \* most tokens kept in tokenStore
MaxDonations == 2      \* longest donations slice explored
MaxJobs == 2           \* notification jobs followed through the worker
\* longest filter list handed to SearchPets
MaxFilters == 2
\* sender goroutines started beyond the capacity of their channel
MaxWaiting == 1
MaxSearchSteps == 4    \* searches and pet operations followed beside a search

\* ------------------------------------------------------- program constants
maxPets == 100         \* capacity of the pets backing array
OtpTTL == 5            \* minutes a pending registration lives
TokenTTL == 1440       \* minutes a token lives (24 hours)
paymentChCap == 50     \* capacity of paymentCh
paymentConfirmChCap == 50  \* capacity of paymentConfirmCh
notificationChCap == 100   \* capacity of notificationCh
maxRetries == 3        \* attempts emailWorker allows SendEmailWithRetry

Procs == 1 .. NumProcs

VARIABLES
    petsMem,        \* backing array of the slice  pets  (slots written so far)
    petsLen,        \* len(pets)
    petsByID,       \* map ID -> *Pet, a pointer being a slot of petsMem
    statusCounts,   \* map status -> int (a missing key reads 0)
    petsByBreed,    \* map breed -> []string, the IDs filed under the breed
    users,          \* the slice  users
    usersByEmail,   \* map email -> *User (users are never modified in place)
    pendingRegs,    \* map email -> *PendingRegistration
    tokenStore,     \* map token -> *AuthToken
    issued,         \* the AuthTokens Login has returned to callers
    otpMails,       \* per e-mail address, the codes of the OTP mails dispatched
    now,            \* time.Now(), in minutes
    handler,        \* per request handler: position and local variables
    steps,          \* number of steps taken so far (exploration depth)
    ret,            \* the response of the operation that returned last
    donations,      \* the slice  donations
    senders,        \* goroutines of createDonationHandler blocked on  paymentCh <- d
    submitted,      \* the donations in the order their sender goroutines were started
    paymentCh,      \* chan Donation
    paymentConfirmCh, \* chan PaymentConfirmation
    processed,      \* the donations paymentProcessor dequeued, each with its confirmation
    applied,        \* the confirmations confirmationListener applied
    receiptMails,   \* the receipt mails paymentProcessor started
    nanos,          \* time.Now().UnixNano(): strictly increasing from read to read
    emailShouldFail, \* the simulate-failure toggle
    smtpConfigured, \* smtpUser != "" && smtpPass != ""
    notificationCh, \* chan NotificationJob
    notifySenders,  \* goroutines of the handlers blocked on  notificationCh <- job
    worker,         \* emailWorker: position, job and attempt of SendEmailWithRetry
    mailLog         \* what emailWorker did: attempts, sleeps and results, in order

vars == <<petsMem, petsLen, petsByID, statusCounts, petsByBreed, users, usersByEmail,
          pendingRegs, tokenStore, issued, otpMails, now, handler, steps, ret,
          donations, senders, submitted, paymentCh, paymentConfirmCh, processed,
          applied, receiptMails, nanos, emailShouldFail, smtpConfigured,
          notificationCh, notifySenders, worker, mailLog>>

petVars == <<petsMem, petsLen, petsByID, statusCounts, petsByBreed>>
authVars == <<users, usersByEmail, pendingRegs, tokenStore, issued, otpMails>>
payVars == <<donations, senders, submitted, paymentCh, paymentConfirmCh, processed,
             applied, receiptMails, nanos>>
mailVars == <<emailShouldFail, smtpConfigured, notificationCh, notifySenders, worker,
              mailLog>>

Idle == [pc |-> "idle"]
NoRet == [op |-> "none"]

\* every step counts towards the exploration depth
Step == steps < MaxSteps /\ steps' = steps + 1
AuthStep == steps < MaxAuthSteps /\ steps' = steps + 1

\* ------------------------------------------------------------ map helpers
\* m[k] = v  on a Go map
MapPut(m, k, v) == [x \in (DOMAIN m) \cup {k} |-> IF x = k THEN v ELSE m[x]]

\* a channel that takes a value whatever it holds
QueueAlwaysHasRoom(ch, cap) == TRUE

\* ch <- x on a buffered channel proceeds when len(ch) < cap(ch) and waits
\* otherwise
QueueHasRoom(ch, cap) == Len(ch) < cap

\* a delete that leaves the key in the map
MapDelKept(m, k) == m

\* delete(m, k)
MapDel(m, k) == [x \in (DOMAIN m) \ {k} |-> m[x]]

EmptyMap == [x \in {} |-> 0]

\* ------------------------------------------------------------------- pets
Statuses == {"Available", "Adopted", "Under Care"}
PetIDs == 1 .. MaxPets + 1

\* A Pet, with the fields the repository operations read or write.
MkPet(id, name, species, breed, age, status, description) ==
    [ID |-> id, Name |-> name, Species |-> species, Breed |-> breed,
     Age |-> age, Status |-> status, Description |-> description]

\* The three sample pets of initializeData.
samplePets ==
    << MkPet(1, "Max", "Dog", "Golden Retriever", 3, "Available", "Friendly"),
       MkPet(2, "Luna", "Cat", "Persian", 2, "Available", "Calm"),
       MkPet(3, "Charlie", "Dog", "Beagle", 1, "Under Care", "Playful") >>

\* the value of the slice  pets : the first len(pets) slots of its array
pets == SubSeq(petsMem, 1, petsLen)

RECURSIVE SumCounts(_, _)
SumCounts(c, S) ==
    IF S = {} THEN 0
    ELSE LET s == CHOOSE x \in S : TRUE IN c[s] + SumCounts(c, S \ {s})

\* number of live pets with status s
LiveWithStatus(s) == Cardinality({i \in 1 .. petsLen : petsMem[i].Status = s})

Abs(n) == IF n < 0 THEN -n ELSE n

\* Exploration bound: Go ints do not overflow here, so the buckets are
\* followed only while each is within MaxSkew of the live pets it counts.
CountsInRange ==
    \A s \in Statuses :
        Abs(statusCounts'[s] -
            Cardinality({i \in 1 .. petsLen' : petsMem'[i].Status = s})) <= MaxSkew

\* validatePet: the pets addPetHandler accepts
validatePet(pet) ==
    /\ pet.Name # ""
    /\ pet.Species # ""
    /\ pet.Age >= 0 /\ pet.Age <= 30
    /\ pet.Status \in Statuses

\* request bodies explored by the pet specification
NewPetInputs ==
    { MkPet(0, "Rex", "Dog", "Beagle", 2, st, "New") : st \in {"Available", "Adopted"} }
      \cup { MkPet(0, "", "Dog", "Beagle", 2, "Available", "New") }
UpdateInputs ==
    { MkPet(0, "", "", "", 0, st, "") : st \in {"Available", "Adopted"} }

\* the IDs of the pets of a list that have the breed, in the list's order
FiledUnder(list, breed) ==
    LET RECURSIVE ids(_)
        ids(n) == IF n = 0 THEN << >>
                  ELSE IF list[n].Breed = breed THEN Append(ids(n - 1), list[n].ID)
                  ELSE ids(n - 1)
    IN ids(Len(list))

\* petsByBreed[breed] = append(petsByBreed[breed], id)
FileUnderBreed(m, breed, id) ==
    IF breed \in DOMAIN m THEN [m EXCEPT ![breed] = Append(@, id)]
    ELSE MapPut(m, breed, <<id>>)

InitPets ==
    /\ petsMem = samplePets
    /\ petsLen = Len(samplePets)
    /\ petsByID = [id \in {samplePets[i].ID : i \in 1 .. Len(samplePets)} |->
                     CHOOSE i \in 1 .. Len(samplePets) : samplePets[i].ID = id]
    /\ statusCounts = [s \in Statuses |->
                         Cardinality({i \in 1 .. Len(samplePets) : samplePets[i].Status = s})]
    /\ petsByBreed = [b \in {samplePets[i].Breed : i \in 1 .. Len(samplePets)} |->
                        FiledUnder(samplePets, b)]

\* addPetHandler, up to the lock: decode, validate, and compute the ID from
\* len(pets), read without the lock.
addPetHandlerBegin(p, in) ==
    /\ Step
    /\ handler[p] = Idle
    /\ IF validatePet(in)
         THEN /\ handler' = [handler EXCEPT ![p] =
                    [pc |-> "addPet", newPet |-> [in EXCEPT !.ID = petsLen + 1]]]
              /\ ret' = ret
         ELSE /\ handler' = handler
              /\ ret' = [op |-> "addPet", res |-> "BadRequest"]
    /\ UNCHANGED <<payVars, mailVars, petVars, authVars, now>>

\* addPetHandler, the critical section: append, index, count.
addPetHandlerStore(p) ==
    /\ Step
    /\ handler[p].pc = "addPet"
    /\ petsLen < MaxPets /\ MaxPets <= maxPets   \* append stays inside the array
    /\ LET newPet == handler[p].newPet
           slot == petsLen + 1
       IN /\ petsMem' = IF slot <= Len(petsMem)
                          THEN [petsMem EXCEPT ![slot] = newPet]
                          ELSE Append(petsMem, newPet)
          /\ petsLen' = slot
          /\ petsByID' = MapPut(petsByID, newPet.ID, slot)
          /\ statusCounts' = [statusCounts EXCEPT ![newPet.Status] = @ + 1]
          /\ petsByBreed' = FileUnderBreed(petsByBreed, newPet.Breed, newPet.ID)
          /\ CountsInRange
          /\ ret' = [op |-> "addPet", res |-> "Created"]
    /\ handler' = [handler EXCEPT ![p] = Idle]
    /\ UNCHANGED <<payVars, mailVars, authVars, now>>

\* the bucket updates of UpdatePet when the update carries a status
MoveCount(c, oldStatus, newStatus) ==
    [[c EXCEPT ![oldStatus] = @ - 1] EXCEPT ![newStatus] = @ + 1]

\* UpdatePet(id, update): one critical section.  pet is the pointer stored
\* in petsByID, i.e. a slot of the backing array.
UpdatePet(id, update) ==
    /\ Step
    /\ IF id \notin DOMAIN petsByID
         THEN /\ ret' = [op |-> "UpdatePet", res |-> "NotFound"]
              /\ UNCHANGED petVars
         ELSE LET slot == petsByID[id]
                  old == petsMem[slot]
                  new == [ID |-> old.ID,
                          Name |-> IF update.Name # "" THEN update.Name ELSE old.Name,
                          Species |-> IF update.Species # "" THEN update.Species ELSE old.Species,
                          Breed |-> IF update.Breed # "" THEN update.Breed ELSE old.Breed,
                          Age |-> IF update.Age > 0 THEN update.Age ELSE old.Age,
                          Status |-> IF update.Status # "" THEN update.Status ELSE old.Status,
                          Description |-> IF update.Description # ""
                                            THEN update.Description ELSE old.Description]
              IN /\ petsMem' = [petsMem EXCEPT ![slot] = new]
                 /\ statusCounts' = IF update.Status # ""
                                      THEN MoveCount(statusCounts, old.Status, update.Status)
                                      ELSE statusCounts
                 /\ ret' = [op |-> "UpdatePet", res |-> "OK"]
                 /\ UNCHANGED <<petsLen, petsByID, petsByBreed>>
    /\ CountsInRange
    /\ UNCHANGED <<payVars, mailVars, authVars, now, handler>>

\* append(pets[:i], pets[i+1:]...) : the slots after i move down by one
\* inside the same backing array; the slot at the old length keeps its value.
RemoveAt(mem, len, i) ==
    [k \in 1 .. Len(mem) |-> IF k >= i /\ k < len THEN mem[k + 1] ELSE mem[k]]

\* a DeletePet that forgets the bucket
DropCountForgotten(c, status) == c

\* the bucket update of DeletePet
DropCount(c, status) == [c EXCEPT ![status] = @ - 1]

\* DeletePet(id): one critical section.
DeletePet(id) ==
    /\ Step
    /\ IF id \notin DOMAIN petsByID
         THEN /\ ret' = [op |-> "DeletePet", res |-> "NotFound"]
              /\ UNCHANGED petVars
         ELSE LET pet == petsMem[petsByID[id]]
                  hits == {i \in 1 .. petsLen : petsMem[i].ID = id}
              IN /\ statusCounts' = DropCount(statusCounts, pet.Status)
                 /\ petsByID' = MapDel(petsByID, id)
                 /\ IF hits # {}
                      THEN LET i == CHOOSE x \in hits : \A y \in hits : x <= y
                           IN /\ petsMem' = RemoveAt(petsMem, petsLen, i)
                              /\ petsLen' = petsLen - 1
                      ELSE UNCHANGED <<petsMem, petsLen>>
                 /\ ret' = [op |-> "DeletePet", res |-> "OK"]
                 /\ UNCHANGED petsByBreed
    /\ CountsInRange
    /\ UNCHANGED <<payVars, mailVars, authVars, now, handler>>

InitRest ==
    /\ users = << >>
    /\ usersByEmail = EmptyMap
    /\ pendingRegs = EmptyMap
    /\ tokenStore = EmptyMap
    /\ issued = {}
    /\ otpMails = EmptyMap
    /\ now = 0
    /\ handler = [p \in Procs |-> Idle]
    /\ steps = 0
    /\ ret = NoRet

\* initializeData: no donations, empty payment channels
InitPayVars ==
    /\ donations = << >>
    /\ senders = {}
    /\ submitted = << >>
    /\ paymentCh = << >>
    /\ paymentConfirmCh = << >>
    /\ processed = << >>
    /\ applied = << >>
    /\ receiptMails = << >>
    /\ nanos = 0

\* the toggle is off, the notification queue is empty, the worker waits
InitMailVars ==
    /\ emailShouldFail = FALSE
    /\ notificationCh = << >>
    /\ notifySenders = << >>
    /\ worker = Idle
    /\ mailLog = << >>

\* without GMAIL_USER and GMAIL_PASS no transport is configured
InitWorkers == InitPayVars /\ InitMailVars /\ smtpConfigured = FALSE

\* --------------------------------------------------------- authentication
\* Request strings explored.  One e-mail address is written with a capital
\* letter and a trailing blank, so that normalisation is not the identity.
RawEmails == {"ann@x.org", "Ann@x.org ", "bob@x.org"}
Passwords == {"pass123", "pass456"}
Username == "user"
\* a few of the 10^6 strings generateOTP can return
OtpCodes == {"004217", "981530"}

\* strings.TrimSpace(strings.ToLower(s)) on the strings explored
Normalize(s) == IF s = "Ann@x.org " THEN "ann@x.org" ELSE s

\* hashPassword: fmt.Sprintf("hashed_%s_pawtnersalt", password)
hashPassword(password) == "hashed_" \o password \o "_pawtnersalt"

\* generateToken: fmt.Sprintf("tok_%s_%d", userID, time.Now().UnixNano())
generateToken(userID) == <<"tok_", userID, now>>
EmptyToken == <<"", 0, 0>>
UnknownToken == <<"invalid-token-xyz", 0, 0>>

MkUser(id, email, username, digest) ==
    [ID |-> id, Email |-> email, Username |-> username, Password |-> digest]

\* time.Now().After(t)
After(t) == now > t

\* the clock advances between steps
Tick(d) ==
    /\ AuthStep
    /\ now' = now + d
    /\ UNCHANGED <<payVars, mailVars, petVars, authVars, handler, ret>>

\* users = append(users, user); usersByEmail[user.Email] = &users[len(users)-1]
\* A stored User is never modified, so the pointer is modelled by the
\* position of the record it points to.
StoreUser(user) ==
    /\ users' = Append(users, user)
    /\ usersByEmail' = MapPut(usersByEmail, user.Email, Len(users) + 1)

\* Register(email, username, password): one critical section.
Register(email, username, password) ==
    /\ AuthStep
    /\ IF email = "" \/ username = "" \/ password = ""
         THEN /\ ret' = [op |-> "Register", email |-> email, res |-> "Required"]
              /\ UNCHANGED <<users, usersByEmail>>
         ELSE IF email \in DOMAIN usersByEmail
           THEN /\ ret' = [op |-> "Register", email |-> email, res |-> "AlreadyExists"]
                /\ UNCHANGED <<users, usersByEmail>>
           ELSE /\ Len(users) < MaxUsers
                /\ StoreUser(MkUser(Len(users) + 1, email, username, hashPassword(password)))
                /\ ret' = [op |-> "Register", email |-> email, res |-> "OK"]
    /\ UNCHANGED <<payVars, mailVars, petVars, pendingRegs, tokenStore, issued, otpMails, now, handler>>

\* a lookup that takes any password
LoginRefusedUnknownOnly(email, password) == email \notin DOMAIN usersByEmail

\* the zero User: no account was found
NoUser == MkUser(0, "", "", "")

\* a lookup that falls back on the pending registrations
LoginUserOrPending(email) ==
    IF email \in DOMAIN usersByEmail THEN users[usersByEmail[email]]
    ELSE IF email \in DOMAIN pendingRegs
      THEN MkUser(Len(users) + 1, pendingRegs[email].Email, pendingRegs[email].Username,
                  pendingRegs[email].HashedPassword)
      ELSE NoUser

\* user, exists := usersByEmail[email]: the account Login works with
LoginUser(email) ==
    IF email \in DOMAIN usersByEmail THEN users[usersByEmail[email]] ELSE NoUser

\* !exists || user.Password != hashPassword(password)
LoginRefused(email, password) ==
    \/ LoginUser(email) = NoUser
    \/ LoginUser(email).Password # hashPassword(password)

\* Login(email, password): the empty strings are refused before mu.Lock(),
\* the rest is one critical section ( locked  tells whether it was entered).
Login(email, password) ==
    /\ AuthStep
    /\ IF email = "" \/ password = ""
         THEN /\ ret' = [op |-> "Login", email |-> email, res |-> "InvalidCredentials",
                         locked |-> FALSE]
              /\ UNCHANGED <<tokenStore, issued>>
         ELSE IF LoginRefused(email, password)
           THEN /\ ret' = [op |-> "Login", email |-> email, res |-> "InvalidCredentials",
                           locked |-> TRUE]
                /\ UNCHANGED <<tokenStore, issued>>
           ELSE LET user == LoginUser(email)
                    token == [Token |-> generateToken(user.ID), UserID |-> user.ID,
                              ExpiresAt |-> now + TokenTTL, Username |-> user.Username,
                              Email |-> user.Email]
                IN /\ Cardinality(DOMAIN tokenStore \cup {token.Token}) <= MaxTokens
                   /\ tokenStore' = MapPut(tokenStore, token.Token, token)
                   /\ issued' = issued \cup {token}
                   /\ ret' = [op |-> "Login", email |-> email, res |-> "OK",
                              locked |-> TRUE, token |-> token.Token]
    /\ UNCHANGED <<payVars, mailVars, petVars, users, usersByEmail, pendingRegs, otpMails, now, handler>>

\* the first user of the slice with the given ID (0: none)
FindUserByID(id) ==
    LET hits == {i \in 1 .. Len(users) : users[i].ID = id}
    IN IF hits = {} THEN 0 ELSE CHOOSE i \in hits : \A j \in hits : i <= j

\* an expiry test that never fires
TokenNeverExpired(token) == FALSE

\* the expiry test of ValidateToken
TokenExpired(token) == After(token.ExpiresAt)

\* ValidateToken(tokenStr): one critical section.
ValidateToken(tokenStr) ==
    /\ AuthStep
    /\ IF tokenStr = EmptyToken \/ tokenStr \notin DOMAIN tokenStore
         THEN /\ ret' = [op |-> "ValidateToken", token |-> tokenStr,
                         res |-> "InvalidCredentials"]
              /\ UNCHANGED tokenStore
         ELSE IF TokenExpired(tokenStore[tokenStr])
           THEN /\ tokenStore' = MapDel(tokenStore, tokenStr)
                /\ ret' = [op |-> "ValidateToken", token |-> tokenStr, res |-> "Expired"]
           ELSE /\ UNCHANGED tokenStore
                /\ LET i == FindUserByID(tokenStore[tokenStr].UserID)
                   IN ret' = IF i = 0
                               THEN [op |-> "ValidateToken", token |-> tokenStr,
                                     res |-> "InvalidCredentials"]
                               ELSE [op |-> "ValidateToken", token |-> tokenStr,
                                     res |-> "OK", user |-> users[i]]
    /\ UNCHANGED <<payVars, mailVars, petVars, users, usersByEmail, pendingRegs, issued, otpMails, now, handler>>

\* registerHandler, first critical section: normalise the e-mail and look
\* it up in usersByEmail.
registerHandlerCheck(p, rawEmail, password) ==
    /\ AuthStep
    /\ handler[p] = Idle
    /\ LET email == Normalize(rawEmail)
       IN IF email = "" \/ password = ""
            THEN /\ ret' = [op |-> "register", email |-> email, res |-> "BadRequest"]
                 /\ handler' = handler
            ELSE IF email \in DOMAIN usersByEmail
              THEN /\ ret' = [op |-> "register", email |-> email, res |-> "Conflict"]
                   /\ handler' = handler
              ELSE /\ ret' = ret
                   /\ handler' = [handler EXCEPT ![p] =
                         [pc |-> "registerStore", email |-> email, password |-> password]]
    /\ UNCHANGED <<payVars, mailVars, petVars, authVars, now>>

\* the codes mailed to an address so far, oldest first
MailsTo(email) == IF email \in DOMAIN otpMails THEN otpMails[email] ELSE << >>

\* a store that keeps an earlier pending registration
StorePendingIfAbsent(m, email, pending) ==
    IF email \in DOMAIN m THEN m ELSE MapPut(m, email, pending)

\* pendingRegs[req.Email] = pending
StorePending(m, email, pending) == MapPut(m, email, pending)

\* registerHandler, second critical section: store the pending registration
\* built from a fresh code, the digest and the expiry; respond 202.
registerHandlerStore(p, code) ==
    /\ AuthStep
    /\ handler[p].pc = "registerStore"
    /\ LET email == handler[p].email
           pending == [Email |-> email, Username |-> Username,
                       HashedPassword |-> hashPassword(handler[p].password),
                       Code |-> code, ExpiresAt |-> now + OtpTTL]
       IN /\ pendingRegs' = StorePending(pendingRegs, email, pending)
          /\ otpMails' = MapPut(otpMails, email, Append(MailsTo(email), code))
          /\ ret' = [op |-> "register", email |-> email, res |-> "Accepted"]
    /\ handler' = [handler EXCEPT ![p] = Idle]
    /\ UNCHANGED <<payVars, mailVars, petVars, users, usersByEmail, tokenStore, issued, now>>

\* verifyEmailHandler, first critical section: fetch the pending registration.
verifyEmailHandlerLookup(p, rawEmail, code) ==
    /\ AuthStep
    /\ handler[p] = Idle
    /\ LET email == Normalize(rawEmail)
       IN IF email \notin DOMAIN pendingRegs
            THEN /\ ret' = [op |-> "verify", email |-> email, code |-> code,
                            res |-> "NoPendingRegistration"]
                 /\ handler' = handler
            ELSE /\ ret' = ret
                 /\ handler' = [handler EXCEPT ![p] =
                       [pc |-> "verifyCheck", email |-> email, code |-> code,
                        pending |-> pendingRegs[email]]]
    /\ UNCHANGED <<payVars, mailVars, petVars, authVars, now>>

\* a code test that lets every code pass
CodeMatchesAlways(code, pending) == TRUE

\* pending.Code != req.Code is the refusal: the submitted code is the stored one
CodeMatches(code, pending) == code = pending.Code

\* a digest made by hashing the stored digest again
AccountDigestRehashed(pending) == hashPassword(pending.HashedPassword)

\* Password: pending.HashedPassword, the digest of the new User
AccountDigest(pending) == pending.HashedPassword

\* verifyEmailHandler outside the lock: the expiry test, the code test, and
\* the new User built with an ID from len(users), read without the lock.
verifyEmailHandlerCheck(p) ==
    /\ AuthStep
    /\ handler[p].pc = "verifyCheck"
    /\ LET h == handler[p]
       IN IF After(h.pending.ExpiresAt)
            THEN /\ handler' = [handler EXCEPT ![p] =
                       [pc |-> "verifyExpire", email |-> h.email, code |-> h.code]]
                 /\ ret' = ret
            ELSE IF ~CodeMatches(h.code, h.pending)
              THEN /\ handler' = [handler EXCEPT ![p] = Idle]
                   /\ ret' = [op |-> "verify", email |-> h.email, code |-> h.code,
                              res |-> "CodeMismatch"]
              ELSE /\ handler' = [handler EXCEPT ![p] =
                         [pc |-> "verifyCreate", email |-> h.email, code |-> h.code,
                          user |-> MkUser(Len(users) + 1, h.pending.Email,
                                          h.pending.Username, AccountDigest(h.pending))]]
                   /\ ret' = ret
    /\ UNCHANGED <<payVars, mailVars, petVars, authVars, now>>

\* an expired branch that leaves the pending registration in place
ExpirePendingKept(m, email) == m

\* delete(pendingRegs, req.Email) of the expired branch
ExpirePending(m, email) == MapDel(m, email)

\* verifyEmailHandler, the critical section of the expired branch.
verifyEmailHandlerExpire(p) ==
    /\ AuthStep
    /\ handler[p].pc = "verifyExpire"
    /\ pendingRegs' = ExpirePending(pendingRegs, handler[p].email)
    /\ ret' = [op |-> "verify", email |-> handler[p].email, code |-> handler[p].code,
               res |-> "CodeExpired"]
    /\ handler' = [handler EXCEPT ![p] = Idle]
    /\ UNCHANGED <<payVars, mailVars, petVars, users, usersByEmail, tokenStore, issued, otpMails, now>>

\* verifyEmailHandler, the critical section that creates the account.
verifyEmailHandlerCreate(p) ==
    /\ AuthStep
    /\ handler[p].pc = "verifyCreate"
    /\ Len(users) < MaxUsers
    /\ StoreUser(handler[p].user)
    /\ pendingRegs' = MapDel(pendingRegs, handler[p].email)
    /\ ret' = [op |-> "verify", email |-> handler[p].email, code |-> handler[p].code,
               res |-> "Created"]
    /\ handler' = [handler EXCEPT ![p] = Idle]
    /\ UNCHANGED <<payVars, mailVars, petVars, tokenStore, issued, otpMails, now>>

\* --------------------------------------------------------------- donations
\* A Donation, with the fields the donation path reads or writes.  Amounts
\* are whole rupees.
MkDonation(id, name, email, amount, method, txn, status, deeplink) ==
    [ID |-> id, DonorName |-> name, DonorEmail |-> email, Amount |-> amount,
     PaymentMethod |-> method, TransactionID |-> txn, Status |-> status,
     PaymentViaDeeplink |-> deeplink]

\* request bodies explored: two accepted ones, one per channel, and one for
\* each way ProcessDonation refuses
DonationInputs ==
    { MkDonation(0, "Jane Doe", "jane@example.com", 500, "UPI", "", "", dl) :
        dl \in BOOLEAN }
      \cup { MkDonation(0, "A", "a@b.com", -100, "UPI", "", "", FALSE),
             MkDonation(0, "", "a@b.com", 100, "UPI", "", "", FALSE),
             MkDonation(0, "A", "a@b.com", 100, "", "", "", TRUE) }

\* fmt.Sprintf("txn-%d", time.Now().UnixNano()) and ("rcpt-%d", ...)
TxnID(t) == <<"txn-", t>>
RcptID(t) == <<"rcpt-", t>>

\* a validation that lets every amount through
ProcessDonationErrorAmountUnchecked(donation) ==
    IF donation.DonorName = "" \/ donation.DonorEmail = ""
      THEN "donor name and email are required"
    ELSE IF donation.PaymentMethod = "" THEN "payment method is required"
    ELSE "nil"

\* the error ProcessDonation returns before it creates anything ("nil": none)
ProcessDonationError(donation) ==
    IF donation.Amount <= 0 THEN "ErrInvalidPayment"
    ELSE IF donation.DonorName = "" \/ donation.DonorEmail = ""
      THEN "donor name and email are required"
    ELSE IF donation.PaymentMethod = "" THEN "payment method is required"
    ELSE "nil"

\* a donation stored as not yet paid
NewDonationStatusPending == "Pending"

\* donation.Status = "Completed"
NewDonationStatus == "Completed"

\* GenerateReceipt(donation) at time t
GenerateReceipt(donation, t) ==
    [ReceiptID |-> RcptID(t), DonationID |-> donation.ID,
     DonorName |-> donation.DonorName, Amount |-> donation.Amount]

\* the requests that passed validation and have not stored their donation yet
DonationsInFlight == Cardinality({p \in Procs : handler[p].pc = "donationStore"})

\* createDonationHandler up to the lock of ProcessDonation: decode, validate,
\* and fill in the donation from len(donations), read without the lock.
createDonationHandlerBegin(p, in) ==
    /\ handler[p] = Idle
    /\ IF ProcessDonationError(in) # "nil"
         THEN /\ ret' = [op |-> "donation", res |-> "BadRequest",
                         err |-> ProcessDonationError(in)]
              /\ UNCHANGED <<handler, nanos>>
         ELSE /\ Len(donations) + DonationsInFlight < MaxDonations
              /\ handler' = [handler EXCEPT ![p] =
                    [pc |-> "donationStore", in |-> in,
                     donation |-> [in EXCEPT !.ID = Len(donations) + 1,
                                             !.TransactionID = TxnID(nanos),
                                             !.Status = NewDonationStatus]]]
              /\ nanos' = nanos + 1
              /\ UNCHANGED ret
    /\ UNCHANGED <<petVars, authVars, mailVars, now, steps, donations, senders,
                   submitted, paymentCh, paymentConfirmCh, processed, applied,
                   receiptMails>>

\* The critical section of ProcessDonation, the receipt, and the goroutine
\* createDonationHandler starts to send the donation to the payment processor.
createDonationHandlerStore(p) ==
    /\ handler[p].pc = "donationStore"
    /\ LET d == handler[p].donation
       IN /\ donations' = Append(donations, d)
          /\ senders' = senders \cup {d}
          /\ submitted' = Append(submitted, d)
          /\ ret' = [op |-> "donation", res |-> "Created", donation |-> d,
                     receipt |-> GenerateReceipt(d, nanos)]
    /\ nanos' = nanos + 1
    /\ handler' = [handler EXCEPT ![p] = Idle]
    /\ UNCHANGED <<petVars, authVars, mailVars, now, steps, paymentCh,
                   paymentConfirmCh, processed, applied, receiptMails>>

\* go func(d Donation) { paymentCh <- d }(donation)
sendToPaymentCh(d) ==
    /\ d \in senders
    /\ QueueHasRoom(paymentCh, paymentChCap)
    /\ paymentCh' = Append(paymentCh, d)
    /\ senders' = senders \ {d}
    /\ UNCHANGED <<petVars, authVars, mailVars, now, steps, handler, ret, donations,
                   submitted, paymentConfirmCh, processed, applied, receiptMails, nanos>>

\* a processor whose payments are declined
ConfirmationDeclined == FALSE

\* Success: true
ConfirmationSuccess == TRUE

\* a processor that sends a receipt for every donation
ReceiptAlwaysDue(donation) == TRUE

\* if donation.PaymentViaDeeplink
ReceiptDue(donation) == donation.PaymentViaDeeplink

\* paymentProcessor, one turn of its loop: take a donation, confirm it, and
\* start the receipt mail when it is due.
paymentProcessor ==
    /\ paymentCh # << >>
    /\ QueueHasRoom(paymentConfirmCh, paymentConfirmChCap)
    /\ LET donation == Head(paymentCh)
           confirmation == [DonationID |-> donation.ID,
                            Success |-> ConfirmationSuccess,
                            TransactionID |-> TxnID(nanos)]
       IN /\ paymentCh' = Tail(paymentCh)
          /\ paymentConfirmCh' = Append(paymentConfirmCh, confirmation)
          /\ processed' = Append(processed, [donation |-> donation,
                                             confirmation |-> confirmation])
          /\ receiptMails' =
                IF ReceiptDue(donation)
                  THEN Append(receiptMails,
                              [To |-> donation.DonorEmail, DonationID |-> donation.ID,
                               TransactionID |-> donation.TransactionID])
                  ELSE receiptMails
    /\ nanos' = nanos + 1
    /\ UNCHANGED <<petVars, authVars, mailVars, now, steps, handler, ret, donations,
                   senders, submitted, applied>>

\* a loop without the break: every donation with the ID takes the result
ApplyConfirmationToAll(ds, confirmation) ==
    [i \in 1 .. Len(ds) |->
       IF ds[i].ID # confirmation.DonationID THEN ds[i]
       ELSE IF confirmation.Success
         THEN [ds[i] EXCEPT !.Status = "Completed",
                            !.TransactionID = confirmation.TransactionID]
         ELSE [ds[i] EXCEPT !.Status = "Failed"]]

\* the loop over donations in confirmationListener: the first donation with
\* the confirmation's ID takes the result
ApplyConfirmation(ds, confirmation) ==
    LET hits == {i \in 1 .. Len(ds) : ds[i].ID = confirmation.DonationID}
    IN IF hits = {} THEN ds
       ELSE LET i == CHOOSE k \in hits : \A j \in hits : k <= j
            IN IF confirmation.Success
                 THEN [ds EXCEPT ![i].Status = "Completed",
                                 ![i].TransactionID = confirmation.TransactionID]
                 ELSE [ds EXCEPT ![i].Status = "Failed"]

\* confirmationListener, one turn of its loop (one critical section)
confirmationListener ==
    /\ paymentConfirmCh # << >>
    /\ donations' = ApplyConfirmation(donations, Head(paymentConfirmCh))
    /\ applied' = Append(applied, Head(paymentConfirmCh))
    /\ paymentConfirmCh' = Tail(paymentConfirmCh)
    /\ UNCHANGED <<petVars, authVars, mailVars, now, steps, handler, ret, senders,
                   submitted, paymentCh, processed, receiptMails, nanos>>

\* ------------------------------------------------------------ notifications
\* the jobs explored: with and without recipient and subject
JobInputs ==
    { [To |-> to, Subject |-> subject] :
        to \in {"test@example.com", ""}, subject \in {"Hello", ""} }

\* what smtp.SendMail does when it is reached
Transports == IF smtpConfigured THEN {"sent", "error"} ELSE {"unconfigured"}

\* a SendEmail that does not look at the toggle
SendEmailToggleIgnored(to, subject, transport) ==
    IF to = "" \/ subject = "" THEN FALSE
    ELSE transport # "error"

\* SendEmail(to, subject, body): TRUE when it returns nil
SendEmail(to, subject, transport) ==
    IF to = "" \/ subject = "" THEN FALSE
    ELSE IF emailShouldFail THEN FALSE
    ELSE IF transport = "unconfigured" THEN TRUE
    ELSE transport = "sent"

Event(ev, n, ok) == [ev |-> ev, n |-> n, ok |-> ok]
JobsTaken == Cardinality({i \in 1 .. Len(mailLog) : mailLog[i].ev = "take"})

\* submitContactHandler and createAdoptionInquiryHandler, after their
\* critical section: go func() { ... }() starts the goroutine that will send
\* the job
submitContactHandler(job) ==
    /\ Len(notifySenders) + Len(notificationCh) + JobsTaken < MaxJobs
    /\ notifySenders' = Append(notifySenders, job)
    /\ UNCHANGED <<petVars, authVars, payVars, now, steps, handler, ret,
                   emailShouldFail, smtpConfigured, notificationCh, worker, mailLog>>

\* the sequence without its i-th element
Without(seq, i) == SubSeq(seq, 1, i - 1) \o SubSeq(seq, i + 1, Len(seq))

\* notificationCh <- NotificationJob{...} in the i-th of the started
\* goroutines: the send waits while the channel is full
sendToNotificationCh(i) ==
    /\ i \in 1 .. Len(notifySenders)
    /\ QueueHasRoom(notificationCh, notificationChCap)
    /\ notificationCh' = Append(notificationCh, notifySenders[i])
    /\ notifySenders' = Without(notifySenders, i)
    /\ UNCHANGED <<petVars, authVars, payVars, now, steps, handler, ret,
                   emailShouldFail, smtpConfigured, worker, mailLog>>

\* emailShouldFail = b
setEmailShouldFail(b) ==
    /\ emailShouldFail # b
    /\ emailShouldFail' = b
    /\ UNCHANGED <<petVars, authVars, payVars, now, steps, handler, ret,
                   smtpConfigured, notificationCh, notifySenders, worker, mailLog>>

\* for job := range jobs: the worker takes the next job and enters
\* SendEmailWithRetry with attempt = 1
emailWorkerTake ==
    /\ worker = Idle
    /\ notificationCh # << >>
    /\ worker' = [pc |-> "attempt", job |-> Head(notificationCh), attempt |-> 1]
    /\ notificationCh' = Tail(notificationCh)
    /\ mailLog' = Append(mailLog, Event("take", 0, TRUE))
    /\ UNCHANGED <<petVars, authVars, payVars, now, steps, handler, ret,
                   emailShouldFail, smtpConfigured, notifySenders>>

\* a loop that goes on after a delivery
ReturnsNilNever(ok) == FALSE

\* err == nil: SendEmailWithRetry returns nil
ReturnsNil(ok) == ok

\* a caller that reports the failed delivery as the outcome of the request
RetAfterDeliveryReported(r, ok) ==
    IF ok THEN r ELSE [op |-> "mail", res |-> "DeliveryFailed"]

\* SendEmailWithRetry(...) as a statement of emailWorker and of the mail
\* goroutines: the returned error is dropped, the last response stands
RetAfterDelivery(r, ok) == r

\* one delivery attempt of SendEmailWithRetry
emailWorkerAttempt(transport) ==
    /\ worker.pc = "attempt"
    /\ worker.attempt <= maxRetries
    /\ LET ok == SendEmail(worker.job.To, worker.job.Subject, transport)
       IN IF ReturnsNil(ok)
            THEN /\ mailLog' = mailLog \o <<Event("attempt", worker.attempt, ok),
                                            Event("done", worker.attempt, TRUE)>>
                 /\ worker' = Idle
                 /\ ret' = RetAfterDelivery(ret, TRUE)
            ELSE /\ mailLog' = Append(mailLog, Event("attempt", worker.attempt, ok))
                 /\ worker' = [worker EXCEPT !.pc = "sleep"]
                 /\ ret' = ret
    /\ UNCHANGED <<petVars, authVars, payVars, now, steps, handler,
                   emailShouldFail, smtpConfigured, notificationCh, notifySenders>>

\* time.Sleep(attempt * 500ms); continue: the delay after a failed attempt,
\* then attempt++ and the loop test; past maxRetries the error is returned
emailWorkerSleep ==
    /\ worker.pc = "sleep"
    /\ IF worker.attempt + 1 <= maxRetries
         THEN /\ mailLog' = Append(mailLog, Event("sleep", worker.attempt, TRUE))
              /\ worker' = [worker EXCEPT !.pc = "attempt", !.attempt = @ + 1]
              /\ ret' = ret
         ELSE /\ mailLog' = mailLog \o <<Event("sleep", worker.attempt, TRUE),
                                         Event("done", worker.attempt, FALSE)>>
              /\ worker' = Idle
              /\ ret' = RetAfterDelivery(ret, FALSE)
    /\ UNCHANGED <<petVars, authVars, payVars, now, steps, handler,
                   emailShouldFail, smtpConfigured, notificationCh, notifySenders>>

Init == InitPets /\ InitRest /\ InitWorkers

NextPets ==
    \/ \E p \in Procs, in \in NewPetInputs : addPetHandlerBegin(p, in)
    \/ \E p \in Procs : addPetHandlerStore(p)
    \/ \E id \in PetIDs, update \in UpdateInputs : UpdatePet(id, update)
    \/ \E id \in PetIDs : DeletePet(id)

SpecPets == Init /\ [][NextPets]_vars

AuthEmails == {"ann@x.org", "Ann@x.org "}

\* Registration and verification, with the clock moving inside and past the
\* life of a pending registration.
NextAuth ==
    \/ \E d \in {1, OtpTTL + 1} : Tick(d)
    \/ \E e \in AuthEmails : Register(e, Username, "pass123")
    \/ \E p \in Procs, e \in AuthEmails : registerHandlerCheck(p, e, "pass123")
    \/ \E p \in Procs, c \in OtpCodes : registerHandlerStore(p, c)
    \/ \E p \in Procs, e \in AuthEmails, c \in OtpCodes : verifyEmailHandlerLookup(p, e, c)
    \/ \E p \in Procs : verifyEmailHandlerCheck(p)
    \/ \E p \in Procs : verifyEmailHandlerExpire(p)
    \/ \E p \in Procs : verifyEmailHandlerCreate(p)

SpecAuth == Init /\ [][NextAuth]_vars

TokenEmails == {"ann@x.org", "bob@x.org"}
LoginEmails == TokenEmails \cup {""}
LoginPasswords == Passwords \cup {""}
IssuedStrings == {t.Token : t \in issued}

\* Login and token validation among registrations and verifications, with
\* the clock jumping past the life of the tokens issued so far.
NextTokens ==
    \/ Tick(TokenTTL + 1)
    \/ \E e \in TokenEmails : Register(e, Username, "pass123")
    \/ \E e \in LoginEmails, pw \in LoginPasswords : Login(e, pw)
    \/ \E t \in IssuedStrings \cup {EmptyToken, UnknownToken} : ValidateToken(t)
    \/ \E p \in Procs : registerHandlerCheck(p, "ann@x.org", "pass123")
    \/ \E p \in Procs : registerHandlerStore(p, "004217")
    \/ \E p \in Procs : verifyEmailHandlerLookup(p, "ann@x.org", "004217")
    \/ \E p \in Procs : verifyEmailHandlerCheck(p)
    \/ \E p \in Procs : verifyEmailHandlerExpire(p)
    \/ \E p \in Procs : verifyEmailHandlerCreate(p)

SpecTokens == Init /\ [][NextTokens]_vars

\* The donation path: requests, the sender goroutines and the two workers.
NextPay ==
    \/ \E p \in Procs, in \in DonationInputs : createDonationHandlerBegin(p, in)
    \/ \E p \in Procs : createDonationHandlerStore(p)
    \/ \E d \in senders : sendToPaymentCh(d)
    \/ paymentProcessor
    \/ confirmationListener

SpecPay == Init /\ [][NextPay]_vars

\* The same with the Go scheduler: the sender goroutines and the two workers
\* run whenever they can.
SpecPayLive ==
    /\ SpecPay
    /\ WF_vars(\E d \in senders : sendToPaymentCh(d))
    /\ WF_vars(paymentProcessor)
    /\ WF_vars(confirmationListener)

\* confirmationListener as a function of what it finds: donations as
\* loadFromMongoDB may leave them, and the confirmations the channel's type
\* admits (declined payments and unknown donations among them).
ListenerDonations ==
    { MkDonation(id, "Jane Doe", "jane@example.com", 500, "UPI", TxnID(0), st, FALSE) :
        id \in 1 .. 2, st \in {"Completed", "Pending"} }
ListenerConfirmations ==
    { [DonationID |-> id, Success |-> b, TransactionID |-> TxnID(7)] :
        id \in 1 .. 3, b \in BOOLEAN }

InitListener ==
    /\ InitPets /\ InitRest
    /\ donations \in UNION {[1 .. n -> ListenerDonations] : n \in 0 .. MaxDonations}
    /\ paymentConfirmCh \in
          UNION {[1 .. n -> ListenerConfirmations] : n \in 1 .. MaxDonations}
    /\ senders = {} /\ submitted = << >> /\ paymentCh = << >>
    /\ processed = << >> /\ applied = << >>
    /\ receiptMails = << >> /\ nanos = 0
    /\ InitMailVars /\ smtpConfigured = FALSE

NextListener == confirmationListener

SpecListener == InitListener /\ [][NextListener]_vars

\* The notification worker, with or without a configured transport.
InitMail ==
    /\ InitPets /\ InitRest /\ InitPayVars /\ InitMailVars
    /\ smtpConfigured \in BOOLEAN

NextMail ==
    \/ \E job \in JobInputs : submitContactHandler(job)
    \/ \E i \in 1 .. Len(notifySenders) : sendToNotificationCh(i)
    \/ \E b \in BOOLEAN : setEmailShouldFail(b)
    \/ emailWorkerTake
    \/ \E transport \in Transports : emailWorkerAttempt(transport)
    \/ emailWorkerSleep

SpecMail == InitMail /\ [][NextMail]_vars

\* The queues at capacity.  The handlers start one goroutine per job and
\* return, so the workers may find any number of senders ahead of them: here
\* as many as the channel holds have sent, and MaxWaiting more are blocked in
\* their send.
QueuedJob == [To |-> "test@example.com", Subject |-> "Hello"]
QueuedDonation(k) ==
    MkDonation(k, "Jane Doe", "jane@example.com", 500, "UPI", TxnID(2 * (k - 1)),
               NewDonationStatus, FALSE)

\* notificationChCap + MaxWaiting contact messages were accepted before
\* emailWorker ran, with the simulate-failure toggle on or off
InitNotificationsFull ==
    /\ InitPayVars
    /\ emailShouldFail \in BOOLEAN
    /\ smtpConfigured = FALSE
    /\ notificationCh = [k \in 1 .. notificationChCap |-> QueuedJob]
    /\ notifySenders = [k \in 1 .. MaxWaiting |-> QueuedJob]
    /\ worker = Idle
    /\ mailLog = << >>

\* paymentChCap + MaxWaiting donations were accepted before paymentProcessor
\* ran
InitPaymentsFull ==
    /\ InitMailVars /\ smtpConfigured = FALSE
    /\ donations = [k \in 1 .. paymentChCap + MaxWaiting |-> QueuedDonation(k)]
    /\ submitted = donations
    /\ paymentCh = SubSeq(donations, 1, paymentChCap)
    /\ senders = {donations[k] : k \in paymentChCap + 1 .. paymentChCap + MaxWaiting}
    /\ paymentConfirmCh = << >>
    /\ processed = << >>
    /\ applied = << >>
    /\ receiptMails = << >>
    /\ nanos = 2 * (paymentChCap + MaxWaiting)

InitQueues == InitPets /\ InitRest /\ (InitNotificationsFull \/ InitPaymentsFull)

\* the sender goroutines and the three workers
NextQueues ==
    \/ \E i \in 1 .. Len(notifySenders) : sendToNotificationCh(i)
    \/ emailWorkerTake
    \/ \E transport \in Transports : emailWorkerAttempt(transport)
    \/ emailWorkerSleep
    \/ \E d \in senders : sendToPaymentCh(d)
    \/ paymentProcessor
    \/ confirmationListener

\* the Go scheduler runs every goroutine that can take a step
SpecQueues ==
    /\ InitQueues /\ [][NextQueues]_vars
    /\ WF_vars(\E i \in 1 .. Len(notifySenders) : sendToNotificationCh(i))
    /\ WF_vars(emailWorkerTake)
    /\ WF_vars(\E transport \in Transports : emailWorkerAttempt(transport))
    /\ WF_vars(emailWorkerSleep)
    /\ WF_vars(\E d \in senders : sendToPaymentCh(d))
    /\ WF_vars(paymentProcessor)
    /\ WF_vars(confirmationListener)

\* Registrations, verifications and contact messages while emailWorker
\* delivers: in one behaviour every delivery attempt fails (the
\* simulate-failure toggle is on), in the other every attempt succeeds.
InitOutcome ==
    /\ InitPets /\ InitRest /\ InitPayVars
    /\ emailShouldFail \in BOOLEAN
    /\ smtpConfigured = FALSE
    /\ notificationCh = << >>
    /\ notifySenders = << >>
    /\ worker = Idle
    /\ mailLog = << >>

NextOutcome ==
    \/ \E p \in Procs : registerHandlerCheck(p, "ann@x.org", "pass123")
    \/ \E p \in Procs : registerHandlerStore(p, "004217")
    \/ \E p \in Procs : verifyEmailHandlerLookup(p, "ann@x.org", "004217")
    \/ \E p \in Procs : verifyEmailHandlerCheck(p)
    \/ \E p \in Procs : verifyEmailHandlerCreate(p)
    \/ submitContactHandler(QueuedJob)
    \/ \E i \in 1 .. Len(notifySenders) : sendToNotificationCh(i)
    \/ emailWorkerTake
    \/ \E transport \in Transports : emailWorkerAttempt(transport)
    \/ emailWorkerSleep

SpecOutcome == InitOutcome /\ [][NextOutcome]_vars

\* ------------------------------------------------------------- the lock
\* What each handler and worker does with mu, the shared collections and the
\* blocking calls, statement by statement in the order of its code.  A
\* statement is its kind and its line: Lock and Unlock of mu; shared, a read
\* or write of pets, petsByID, statusCounts, users, usersByEmail, donations,
\* pendingRegs or tokenStore; email, a call of SendEmail; sleep, time.Sleep;
\* chan, a send to or a receive from a channel; db, a call of the
\* persistence mirror.
St(op, line) == [op |-> op, line |-> line]

Routines ==
    {"Register", "Login", "ValidateToken", "updatePetHandler", "deletePetHandler",
     "createDonationHandler", "donationSender", "SearchPets", "paymentProcessor",
     "confirmationListener", "emailWorker", "getPetsHandler", "getPetByIDHandler",
     "getStatisticsHandler", "addPetHandler", "registerHandler",
     "verifyEmailHandler", "getDonationsHandler"}

\* a handler that locks mu and returns without unlocking
TextLockKept(r) == <<St("Lock", 1881), St("shared", 1882)>>

Text(r) ==
    CASE r = "Register" ->
           <<St("Lock", 543), St("shared", 546), St("shared", 559), St("Unlock", 561)>>
      [] r = "Login" ->
           <<St("Lock", 569), St("shared", 572), St("shared", 586), St("Unlock", 587)>>
      [] r = "ValidateToken" ->
           <<St("Lock", 595), St("shared", 598), St("shared", 608), St("Unlock", 613)>>
      [] r = "updatePetHandler" ->
           <<St("Lock", 617), St("shared", 620), St("Unlock", 646),
             St("shared", 1475), St("db", 1475)>>
      [] r = "deletePetHandler" ->
           <<St("Lock", 650), St("shared", 653), St("Unlock", 667), St("db", 1498)>>
      [] r = "createDonationHandler" ->
           <<St("shared", 681), St("Lock", 686), St("shared", 687), St("Unlock", 688),
             St("db", 690)>>
      [] r = "donationSender" -> <<St("chan", 1863)>>
      [] r = "SearchPets" ->
           <<St("Lock", 1101), St("shared", 1102), St("Unlock", 1104)>>
      [] r = "paymentProcessor" ->
           <<St("chan", 1166), St("sleep", 1167), St("chan", 1173)>>
      [] r = "confirmationListener" ->
           <<St("chan", 1189), St("Lock", 1190), St("shared", 1191), St("Unlock", 1202)>>
      [] r = "emailWorker" ->
           <<St("chan", 1160), St("email", 849), St("sleep", 852)>>
      [] r = "getPetsHandler" -> <<St("shared", 1380)>>
      [] r = "getPetByIDHandler" -> <<St("shared", 1394)>>
      [] r = "getStatisticsHandler" -> <<St("shared", 415), St("shared", 418)>>
      [] r = "addPetHandler" ->
           <<St("shared", 1430), St("Lock", 1433), St("shared", 1434), St("Unlock", 1438),
             St("db", 1440)>>
      [] r = "registerHandler" ->
           <<St("Lock", 1625), St("shared", 1626), St("Unlock", 1627),
             St("Lock", 1641), St("shared", 1642), St("Unlock", 1643)>>
      [] r = "verifyEmailHandler" ->
           <<St("Lock", 1680), St("shared", 1681), St("Unlock", 1682), St("shared", 1702),
             St("Lock", 1711), St("shared", 1712), St("Unlock", 1715), St("db", 1717)>>
      [] r = "getDonationsHandler" ->
           <<St("Lock", 1881), St("shared", 1882), St("Unlock", 1884)>>

\* the calls that block: mail, sleep, channel operation, persistence
BlockingOps == {"email", "sleep", "chan", "db"}

\* the goroutine is inside a routine, before its statement  at
InText(p) ==
    /\ handler[p].pc = "text"
    /\ handler[p].at <= Len(Text(handler[p].routine))
Current(p) == Text(handler[p].routine)[handler[p].at]

\* mu is held by the goroutine
Holds(p) == handler[p].pc = "text" /\ handler[p].holds
muLocked == \E p \in Procs : Holds(p)

\* an Unlock that does not release
HoldsAfterNeverReleased(st, holds) == holds \/ st.op = "Lock"

\* whether the goroutine holds mu after the statement
HoldsAfter(st, holds) ==
    IF st.op = "Lock" THEN TRUE
    ELSE IF st.op = "Unlock" THEN FALSE
    ELSE holds

\* a request arrives, or a worker starts a turn of its loop
enterRoutine(p, r) ==
    /\ handler[p] = Idle
    /\ handler' = [handler EXCEPT ![p] =
                      [pc |-> "text", routine |-> r, at |-> 1, holds |-> FALSE]]
    /\ UNCHANGED <<petVars, authVars, payVars, mailVars, now, steps, ret>>

\* the goroutine executes its next statement; mu.Lock() waits while another
\* goroutine holds mu
execStatement(p) ==
    /\ InText(p)
    /\ Current(p).op = "Lock" => ~muLocked
    /\ handler' = [handler EXCEPT ![p] =
          IF /\ handler[p].at = Len(Text(handler[p].routine))
             /\ ~HoldsAfter(Current(p), handler[p].holds)
            THEN Idle
            ELSE [@ EXCEPT !.at = @ + 1,
                           !.holds = HoldsAfter(Current(p), handler[p].holds)]]
    /\ UNCHANGED <<petVars, authVars, payVars, mailVars, now, steps, ret>>

NextLock ==
    \/ \E p \in Procs, r \in Routines : enterRoutine(p, r)
    \/ \E p \in Procs : execStatement(p)

SpecLock == Init /\ [][NextLock]_vars

\* confirmationListener, one turn of its loop: mu.Lock() waits while a
\* handler holds mu
confirmationListenerLocked == ~muLocked /\ confirmationListener

\* the requests that take mu beside the workers, served one after the
\* other by the first handler goroutine
LockRoutines == {"createDonationHandler"}

\* The payment queue at capacity with blocked senders, the processor and the
\* listener, and request handlers that take and release mu.
NextDeadlock ==
    \/ \E d \in senders : sendToPaymentCh(d)
    \/ paymentProcessor
    \/ confirmationListenerLocked
    \/ \E r \in LockRoutines : enterRoutine(1, r)
    \/ execStatement(1)

\* the payment queue at capacity with blocked senders, as in InitQueues
InitDeadlock == InitPets /\ InitRest /\ InitPaymentsFull

\* The Go scheduler runs every goroutine that can take a step, and a
\* goroutine waiting in mu.Lock() is handed the mutex once it has waited
\* (sync.Mutex starvation mode): strong fairness for the listener.
SpecDeadlock ==
    /\ InitDeadlock
    /\ [][NextDeadlock]_vars
    /\ WF_vars(\E d \in senders : sendToPaymentCh(d))
    /\ WF_vars(paymentProcessor)
    /\ SF_vars(confirmationListenerLocked)
    /\ WF_vars(execStatement(1))

\* ----------------------------------------------------------------- search
\* Go strings are byte sequences; the strings that occur in the sample pets,
\* the queries and the filters, spelled out letter by letter.
Spelling ==
    [str \in {"", "Max", "Luna", "Charlie", "Rex", "Dog", "Cat", "dog", "DOG",
              "Golden Retriever", "Persian", "Beagle", "an", "zz"} |->
        CASE str = "" -> << >>
          [] str = "Max" -> <<"M", "a", "x">>
          [] str = "Luna" -> <<"L", "u", "n", "a">>
          [] str = "Charlie" -> <<"C", "h", "a", "r", "l", "i", "e">>
          [] str = "Rex" -> <<"R", "e", "x">>
          [] str = "Dog" -> <<"D", "o", "g">>
          [] str = "Cat" -> <<"C", "a", "t">>
          [] str = "dog" -> <<"d", "o", "g">>
          [] str = "DOG" -> <<"D", "O", "G">>
          [] str = "Golden Retriever" ->
               <<"G", "o", "l", "d", "e", "n", " ", "R", "e", "t", "r", "i", "e", "v", "e", "r">>
          [] str = "Persian" -> <<"P", "e", "r", "s", "i", "a", "n">>
          [] str = "Beagle" -> <<"B", "e", "a", "g", "l", "e">>
          [] str = "an" -> <<"a", "n">>
          [] str = "zz" -> <<"z", "z">>]

UpperLetters ==
    <<"A", "B", "C", "D", "E", "F", "G", "H", "I", "J", "K", "L", "M",
      "N", "O", "P", "Q", "R", "S", "T", "U", "V", "W", "X", "Y", "Z">>
LowerLetters ==
    <<"a", "b", "c", "d", "e", "f", "g", "h", "i", "j", "k", "l", "m",
      "n", "o", "p", "q", "r", "s", "t", "u", "v", "w", "x", "y", "z">>

\* the lower-case letter of every upper-case letter
LowerTable ==
    [c \in {UpperLetters[k] : k \in 1 .. Len(UpperLetters)} |->
        LowerLetters[CHOOSE k \in 1 .. Len(UpperLetters) : UpperLetters[k] = c]]

\* the lower-case form of one letter
LowerOf(c) == IF c \in DOMAIN LowerTable THEN LowerTable[c] ELSE c

\* strings.ToLower
ToLower(str) == [k \in 1 .. Len(str) |-> LowerOf(str[k])]

\* strings.Contains
Contains(str, substr) ==
    \E k \in 0 .. Len(str) - Len(substr) : SubSeq(str, k + 1, k + Len(substr)) = substr

\* a comparison that tells upper case from lower case
EqualFoldExact(str, t) == str = t

\* strings.EqualFold
EqualFold(str, t) ==
    /\ Len(str) = Len(t)
    /\ \A k \in 1 .. Len(str) : LowerOf(str[k]) = LowerOf(t[k])

\* the three Filterable structs
SpeciesFilter(species) == [kind |-> "SpeciesFilter", Species |-> species]
StatusFilter(status) == [kind |-> "StatusFilter", Status |-> status]
AgeRangeFilter(min, max) == [kind |-> "AgeRangeFilter", Min |-> min, Max |-> max]

\* result := make([]Pet, 0); for _, p := range petList { if ... { append } }
\* where hits are the positions at which the test of the loop succeeds
FilterLoop(petList, hits) ==
    LET RECURSIVE loop(_)
        loop(n) == IF n = 0 THEN << >>
                   ELSE IF n \in hits THEN Append(loop(n - 1), petList[n])
                   ELSE loop(n - 1)
    IN loop(Len(petList))

SpeciesFilterFilter(f, petList) ==
    FilterLoop(petList, {n \in 1 .. Len(petList) :
                            EqualFold(Spelling[petList[n].Species], Spelling[f.Species])})

StatusFilterFilter(f, petList) ==
    FilterLoop(petList, {n \in 1 .. Len(petList) : petList[n].Status = f.Status})

\* an age test whose bounds are exclusive
AgeRangeFilterFilterExclusive(f, petList) ==
    FilterLoop(petList, {n \in 1 .. Len(petList) :
                            /\ (f.Min = 0 \/ petList[n].Age > f.Min)
                            /\ (f.Max = 0 \/ petList[n].Age < f.Max)})

AgeRangeFilterFilter(f, petList) ==
    FilterLoop(petList, {n \in 1 .. Len(petList) :
                            /\ (f.Min = 0 \/ petList[n].Age >= f.Min)
                            /\ (f.Max = 0 \/ petList[n].Age <= f.Max)})

\* filter.Filter(result) : the method of the struct behind the interface
Filter(f, petList) ==
    CASE f.kind = "SpeciesFilter" -> SpeciesFilterFilter(f, petList)
      [] f.kind = "StatusFilter" -> StatusFilterFilter(f, petList)
      [] f.kind = "AgeRangeFilter" -> AgeRangeFilterFilter(f, petList)

\* a chain that stops after its first filter
ApplyFiltersFirstOnly(petList, filters) ==
    IF filters = << >> THEN petList ELSE Filter(filters[1], petList)

\* ApplyFilters: each filter is handed the result of the one before it
ApplyFilters(petList, filters) ==
    LET RECURSIVE fold(_)
        fold(k) == IF k = 0 THEN petList ELSE Filter(filters[k], fold(k - 1))
    IN fold(Len(filters))

\* the query test of SearchPets on one pet
QueryHit(p, query) ==
    LET qLower == ToLower(Spelling[query])
    IN \/ Contains(ToLower(Spelling[p.Name]), qLower)
       \/ Contains(ToLower(Spelling[p.Species]), qLower)
       \/ Contains(ToLower(Spelling[p.Breed]), qLower)

\* the pets SearchPets returns for a snapshot petsCopy
SearchResult(petsCopy, query, filters) ==
    LET result == IF query # ""
                    THEN FilterLoop(petsCopy, {n \in 1 .. Len(petsCopy) :
                                                  QueryHit(petsCopy[n], query)})
                  ELSE petsCopy
    IN IF Len(filters) > 0 THEN ApplyFilters(result, filters) ELSE result

\* queries and filters explored by the search specification
Queries == {"", "DOG", "an"}
FilterInputs ==
    {SpeciesFilter("dog"), StatusFilter("Available"), StatusFilter("available"),
     AgeRangeFilter(2, 0)}
FilterLists ==
    {fs \in UNION {[1 .. n -> FilterInputs] : n \in 0 .. MaxFilters} :
        \A a, b \in 1 .. Len(fs) : fs[a] = fs[b] => a = b}
\* the age ranges explored, each searched alone: every pair of bounds from
\* no limit to the age of the oldest sample pet
AgeBounds == 0 .. 3
AgeRangeLists == {<<AgeRangeFilter(min, max)>> : min \in AgeBounds, max \in AgeBounds}
SearchInputs ==
    (Queries \X FilterLists) \cup ({""} \X AgeRangeLists)

\* a search that never refuses
SearchPetsRefusesNever(query, filters) == FALSE

\* if query == "" && len(filters) == 0 { return nil, errors.New(...) }
SearchPetsRefuses(query, filters) == query = "" /\ Len(filters) = 0

\* SearchPets(query, filters): the snapshot is copied under the lock, the
\* rest works on the copy.
SearchPets(query, filters) ==
    /\ ret' = IF SearchPetsRefuses(query, filters)
                THEN [op |-> "SearchPets", query |-> query, filters |-> filters,
                      res |-> "Error", pets |-> << >>]
                ELSE [op |-> "SearchPets", query |-> query, filters |-> filters,
                      res |-> "OK", pets |-> SearchResult(pets, query, filters)]
    /\ UNCHANGED <<payVars, mailVars, petVars, authVars, now, handler, steps>>

\* the pet lists the server starts from: loadFromMongoDB replaces the sample
\* pets by the pets the store holds when it holds some, here two or three of
\* the sample pets
SearchLists ==
    {FilterLoop(samplePets, S) :
        S \in {T \in SUBSET (1 .. Len(samplePets)) : Cardinality(T) >= 2}}

\* the indices initializeData and loadFromMongoDB build for a pet list
InitPetsFrom(list) ==
    /\ petsMem = list
    /\ petsLen = Len(list)
    /\ petsByID = [id \in {list[i].ID : i \in 1 .. Len(list)} |->
                     CHOOSE i \in 1 .. Len(list) : list[i].ID = id]
    /\ statusCounts = [s \in Statuses |->
                         Cardinality({i \in 1 .. Len(list) : list[i].Status = s})]
    /\ petsByBreed = [b \in {list[i].Breed : i \in 1 .. Len(list)} |->
                        FiledUnder(list, b)]

InitSearch == (\E list \in SearchLists : InitPetsFrom(list)) /\ InitRest /\ InitWorkers

\* searches of the snapshot
NextSearch ==
    \E in \in SearchInputs : SearchPets(in[1], in[2])

SpecSearch == InitSearch /\ [][NextSearch]_vars

\* a search that ranges over the shared slice itself
petsCopyShared(copied, current) == current

\* petsCopy after copy(petsCopy, pets): the records as they were copied
petsCopy(copied, current) == copied

\* SearchPets up to mu.Unlock(): the refusal, or the copy of the live pets
\* taken inside the critical section
SearchPetsSnapshot(p, query, filters) ==
    /\ Step
    /\ handler[p] = Idle
    /\ IF SearchPetsRefuses(query, filters)
         THEN /\ ret' = [op |-> "SearchPets", query |-> query, filters |-> filters,
                         res |-> "Error", pets |-> << >>]
              /\ handler' = handler
         ELSE /\ ret' = ret
              /\ handler' = [handler EXCEPT ![p] =
                    [pc |-> "search", query |-> query, filters |-> filters,
                     petsCopy |-> pets]]
    /\ UNCHANGED <<payVars, mailVars, petVars, authVars, now>>

\* SearchPets after mu.Unlock(): the query loop and ApplyFilters over petsCopy
SearchPetsFilter(p) ==
    /\ handler[p].pc = "search"
    /\ ret' = [op |-> "SearchPets", query |-> handler[p].query,
               filters |-> handler[p].filters, res |-> "OK",
               pets |-> SearchResult(petsCopy(handler[p].petsCopy, pets),
                                     handler[p].query, handler[p].filters)]
    /\ handler' = [handler EXCEPT ![p] = Idle]
    /\ UNCHANGED <<payVars, mailVars, petVars, authVars, now, steps>>

\* the searches run beside the mutations
SnapshotInputs ==
    {<<"an", << >> >>, <<"", <<StatusFilter("Available")>> >>}

\* searches between their snapshot and their result while pets are added,
\* updated and deleted
NextSnapshot ==
    \/ \E p \in Procs, in \in SnapshotInputs :
          steps < MaxSearchSteps /\ SearchPetsSnapshot(p, in[1], in[2])
    \/ \E p \in Procs : SearchPetsFilter(p)
    \/ \E p \in Procs :
          /\ steps < MaxSearchSteps
          /\ addPetHandlerBegin(p, MkPet(0, "Rex", "Dog", "Beagle", 2, "Available", "New"))
    \/ \E p \in Procs : steps < MaxSearchSteps /\ addPetHandlerStore(p)
    \/ \E id \in DOMAIN petsByID :
          /\ steps < MaxSearchSteps
          /\ UpdatePet(id, MkPet(0, "", "", "", 0, "Adopted", ""))
    \/ \E id \in DOMAIN petsByID : steps < MaxSearchSteps /\ DeletePet(id)

SpecSnapshot == Init /\ [][NextSnapshot]_vars

\* ----------------------------------------------------------------- claims

\* C1: after any interleaving of addPet, UpdatePet and DeletePet, the sum of
\* all statusCounts buckets equals the number of live pets.
C1_CountSumEqualsLivePets ==
    SumCounts(statusCounts, DOMAIN statusCounts) = petsLen

\* C1 witness: a pet was added after a delete while another addPetHandler is
\* still between its unlocked read and its critical section, and two live
\* pets share an ID.
C1_Witness ==
    /\ ret = [op |-> "addPet", res |-> "Created"]
    /\ \E p \in Procs : handler[p].pc = "addPet"
    /\ \E i, j \in 1 .. petsLen : i < j /\ petsMem[i].ID = petsMem[j].ID

\* C2: for every status s, statusCounts[s] is the number of live pets whose
\* status is s (so no bucket is negative).
C2_BucketsMatchLivePets ==
    \A s \in Statuses : statusCounts[s] = LiveWithStatus(s)

\* C3: the user collection holds at most one UserAccount per e-mail address.
C3_OneAccountPerEmail ==
    \A i, j \in 1 .. Len(users) : users[i].Email = users[j].Email => i = j

\* a register call for an address that has a pending registration and no
\* account is not refused
SecondRegisterProceeds ==
    \A p \in Procs, e \in RawEmails, pw \in Passwords :
        (/\ registerHandlerCheck(p, e, pw)
         /\ Normalize(e) \in DOMAIN pendingRegs
         /\ Normalize(e) \notin DOMAIN usersByEmail)
        => handler'[p].pc = "registerStore"

\* and its store replaces the pending code and restarts the expiry
SecondRegisterReplaces ==
    \A p \in Procs, c \in OtpCodes :
        (registerHandlerStore(p, c) /\ handler[p].email \in DOMAIN pendingRegs)
        => /\ pendingRegs'[handler[p].email].Code = c
           /\ pendingRegs'[handler[p].email].ExpiresAt = now + OtpTTL
           /\ ret'.res = "Accepted"

\* handler p is about to test the first of two codes mailed to its address
\* against the pending registration of the second register call
TestsFirstCode(p) ==
    /\ handler[p].pc = "verifyCheck"
    /\ verifyEmailHandlerCheck(p)
    /\ handler[p].email \notin DOMAIN usersByEmail
    /\ Len(MailsTo(handler[p].email)) = 2
    /\ handler[p].code = MailsTo(handler[p].email)[1]
    /\ handler[p].pending.Code = MailsTo(handler[p].email)[2]

C5_SecondRegisterConflicts ==
    [][\A p \in Procs, e \in RawEmails, pw \in Passwords :
         (/\ registerHandlerCheck(p, e, pw)
          /\ Normalize(e) \in DOMAIN pendingRegs
          /\ pendingRegs[Normalize(e)].HashedPassword = hashPassword(pw))
         => ret' = [op |-> "register", email |-> Normalize(e), res |-> "Conflict"]]_vars

\* some UserAccount carries this e-mail address
AccountFor(email) == \E i \in 1 .. Len(users) : users[i].Email = email

\* C6: once a UserAccount exists for an address, a registration attempt for
\* that address, by Register or by the register handler, fails with
\* AlreadyExists and changes neither users nor pendingRegs; accounts are
\* never removed.
C6_RegistrationRefusedOnceVerified ==
    [][/\ \A e \in RawEmails, pw \in Passwords :
            (Register(e, Username, pw) /\ AccountFor(e))
            => /\ ret'.res = "AlreadyExists"
               /\ users' = users /\ pendingRegs' = pendingRegs
       /\ \A p \in Procs, e \in RawEmails, pw \in Passwords :
            (registerHandlerCheck(p, e, pw) /\ AccountFor(e))
            => /\ ret'.op = "register" /\ ret'.res = "Conflict"
               /\ handler'[p] = Idle
       /\ Len(users') >= Len(users)
       /\ SubSeq(users', 1, Len(users)) = users]_vars

\* C7: a verify with the correct code after the expiry creates no account,
\* deletes the pending registration and answers CodeExpired; a verify for an
\* address without pending registration answers NoPendingRegistration.
C7_ExpiredVerifyDeletesPending ==
    [][/\ \A p \in Procs :
            (/\ verifyEmailHandlerCheck(p)
             /\ handler[p].pc = "verifyCheck"
             /\ handler[p].code = handler[p].pending.Code
             /\ After(handler[p].pending.ExpiresAt))
            => handler'[p].pc = "verifyExpire" /\ users' = users
       /\ \A p \in Procs :
            (handler[p].pc = "verifyExpire" /\ handler'[p] # handler[p])
            => /\ ret' = [op |-> "verify", email |-> handler[p].email,
                          code |-> handler[p].code, res |-> "CodeExpired"]
               /\ handler[p].email \notin DOMAIN pendingRegs'
               /\ users' = users
       /\ \A p \in Procs, e \in RawEmails, c \in OtpCodes :
            (verifyEmailHandlerLookup(p, e, c) /\ Normalize(e) \notin DOMAIN pendingRegs)
            => /\ ret'.op = "verify" /\ ret'.res = "NoPendingRegistration"
               /\ handler'[p] = Idle]_vars

\* C7 witness: a code was mailed, the verify that followed its expiry has
\* deleted the pending registration without creating an account, and the
\* next verify for the address has answered NoPendingRegistration.
C7_Witness ==
    /\ ret.op = "verify" /\ ret.res = "NoPendingRegistration"
    /\ MailsTo(ret.email) # << >>
    /\ ret.email \notin DOMAIN pendingRegs
    /\ users = << >>
    /\ now > OtpTTL

\* C8: no PendingRegistration exists for an address that has a UserAccount
\* (a Go map holds at most one pending registration per address).
C8_NoPendingForVerifiedEmail ==
    \A e \in DOMAIN pendingRegs : ~AccountFor(e)

\* C9: ValidateToken returns no user for a token whose expiry has passed:
\* if the token is still stored it answers Expired and removes it, if not it
\* answers InvalidCredentials; a token removed after its expiry never
\* comes back into the store.
C9_ExpiredTokenEvictedOnce ==
    [][\A t \in issued :
         /\ (ValidateToken(t.Token) /\ After(t.ExpiresAt))
            => /\ ret'.res = (IF t.Token \in DOMAIN tokenStore
                                THEN "Expired" ELSE "InvalidCredentials")
               /\ t.Token \notin DOMAIN tokenStore'
         /\ (After(t.ExpiresAt) /\ t.Token \notin DOMAIN tokenStore)
            => t.Token \notin DOMAIN tokenStore']_vars

\* C9 witness: a token returned by Login has passed its expiry, is gone from
\* the store, and its latest validation has answered InvalidCredentials.
C9_Witness ==
    /\ ret.op = "ValidateToken" /\ ret.res = "InvalidCredentials"
    /\ \E t \in issued : t.Token = ret.token /\ After(t.ExpiresAt)
    /\ ret.token \notin DOMAIN tokenStore

\* C10: ValidateToken of an unexpired token returned by Login answers with
\* the account that logged in (same e-mail address, same user ID); the empty
\* and an unknown token answer InvalidCredentials and leave tokenStore alone.
C10_ValidTokenYieldsItsOwner ==
    [][/\ \A t \in issued :
            (ValidateToken(t.Token) /\ ~After(t.ExpiresAt))
            => /\ ret'.res = "OK"
               /\ ret'.user.Email = t.Email
               /\ ret'.user.ID = t.UserID
       /\ \A s \in {EmptyToken, UnknownToken} :
            ValidateToken(s)
            => ret'.res = "InvalidCredentials" /\ tokenStore' = tokenStore]_vars

\* C11: Login answers the same InvalidCredentials for an unknown e-mail
\* address, for a wrong password and for an empty e-mail address or password;
\* a failed Login adds no token to the token store, and with an empty e-mail
\* address or password it returns before the lock is taken and before the
\* user store is read.
C11_FailedLoginUniformNoToken ==
    [][\A e \in LoginEmails, pw \in LoginPasswords :
         (/\ ret'.op = "Login" /\ ret'.email = e
          /\ Login(e, pw)
          /\ \/ e = "" \/ pw = ""
             \/ e \notin DOMAIN usersByEmail
             \/ users[usersByEmail[e]].Password # hashPassword(pw))
         => /\ ret'.res = "InvalidCredentials"
            /\ tokenStore' = tokenStore /\ issued' = issued
            /\ (e = "" \/ pw = "") => ~ret'.locked]_vars

\* C11 witness: Login was refused for a registered address (wrong password)
\* while that user already holds a token.
C11_Witness ==
    /\ ret.op = "Login" /\ ret.res = "InvalidCredentials" /\ ret.locked
    /\ ret.email \in DOMAIN usersByEmail
    /\ \E t \in DOMAIN tokenStore : tokenStore[t].Email = ret.email

\* C12: every donation is recorded with status Pending and changes status
\* exactly once, to Completed or to Failed, and only when the confirmation
\* listener applies a confirmation; afterwards its status never changes.
C12_PendingUntilConfirmedOnce ==
    [][/\ Len(donations') > Len(donations)
          => donations'[Len(donations')].Status = "Pending"
       /\ \A i \in 1 .. Len(donations) :
            donations'[i].Status # donations[i].Status
            => /\ donations[i].Status = "Pending"
               /\ donations'[i].Status \in {"Completed", "Failed"}
               /\ applied' # applied]_vars

\* the inputs ProcessDonation accepts
ValidDonation(in) ==
    /\ in.Amount > 0 /\ in.DonorName # "" /\ in.DonorEmail # ""
    /\ in.PaymentMethod # ""

\* C13: ProcessDonation with amount > 0 and non-empty donor name, donor
\* e-mail address and payment method appends exactly one donation, with
\* status Completed, and returns a receipt with a non-empty ReceiptID whose
\* Amount and DonationID are the donation's amount and ID.
C13_ValidDonationStoredCompleted ==
    [][\A p \in Procs :
         /\ \A in \in DonationInputs :
              createDonationHandlerBegin(p, in) /\ ValidDonation(in)
              => handler'[p].pc = "donationStore" /\ handler'[p].in = in
         /\ createDonationHandlerStore(p)
            => /\ ValidDonation(handler[p].in)
               /\ Len(donations') = Len(donations) + 1
               /\ SubSeq(donations', 1, Len(donations)) = donations
               /\ LET d == donations'[Len(donations')]
                  IN /\ d.Status = "Completed"
                     /\ d.Amount = handler[p].in.Amount
                     /\ ret'.res = "Created"
                     /\ Len(ret'.receipt.ReceiptID) > 0
                     /\ ret'.receipt.Amount = d.Amount
                     /\ ret'.receipt.DonationID = d.ID]_vars

\* C13 witness: a second donation was stored and its receipt returned.
C13_Witness ==
    /\ ret.op = "donation" /\ ret.res = "Created"
    /\ Len(donations) = 2
    /\ ret.receipt.DonationID = donations[2].ID

\* C14: ProcessDonation with amount <= 0, an empty donor name or e-mail
\* address, or an empty payment method returns an error (ErrInvalidPayment
\* for the amount) before any record is created: the donations are unchanged
\* and nothing is handed to the payment queue.
C14_InvalidDonationRefused ==
    [][\A p \in Procs, in \in DonationInputs :
         createDonationHandlerBegin(p, in) /\ ~ValidDonation(in)
         => /\ ret'.op = "donation" /\ ret'.res = "BadRequest"
            /\ in.Amount <= 0 => ret'.err = "ErrInvalidPayment"
            /\ handler'[p] = Idle
            /\ UNCHANGED <<donations, senders, paymentCh>>]_vars

\* C14 witness: a donation was refused after another one had been stored and
\* queued.
C14_Witness ==
    /\ ret.op = "donation" /\ ret.res = "BadRequest"
    /\ ret.err = "payment method is required"
    /\ donations # << >> /\ paymentCh # << >>

\* C15: applying a confirmation changes only the status and transaction ID
\* of the donation with the confirmation's donation ID (Completed with the
\* confirmation's transaction ID on success, Failed otherwise) and leaves
\* every other donation unchanged; when no stored donation has that ID the
\* donations are unchanged.
C15_ConfirmationChangesOnlyItsDonation ==
    [][confirmationListener
       => LET c == Head(paymentConfirmCh)
          IN IF \A i \in 1 .. Len(donations) : donations[i].ID # c.DonationID
               THEN donations' = donations
               ELSE /\ Len(donations') = Len(donations)
                    /\ \E i \in 1 .. Len(donations) :
                         /\ donations[i].ID = c.DonationID
                         /\ \A j \in 1 .. Len(donations) :
                              j # i => donations'[j] = donations[j]
                         /\ donations'[i] =
                              IF c.Success
                                THEN [donations[i] EXCEPT
                                        !.Status = "Completed",
                                        !.TransactionID = c.TransactionID]
                                ELSE [donations[i] EXCEPT !.Status = "Failed"]]_vars

\* C15 witness: a declined payment was applied to one of two donations that
\* carry the same ID.
C15_Witness ==
    /\ applied # << >>
    /\ Len(donations) = 2 /\ donations[1].ID = donations[2].ID
    /\ donations[1].Status = "Failed" /\ donations[2].Status = "Pending"

\* the confirmations the processor emitted, in order
Emitted == [k \in 1 .. Len(processed) |-> processed[k].confirmation]

\* C16: under fair scheduling every accepted donation is eventually taken by
\* the payment processor, which emits exactly one confirmation for it, with
\* success = true; the listener eventually applies it; confirmations are
\* applied in the order the processor took the donations, and no donation
\* ever has status Failed.
\* (The counts of taken and of applied donations never decrease, so that
\* they catch up with the accepted donations again and again says that each
\* accepted donation is taken and applied.)
C16_EveryDonationConfirmedInOrder ==
    /\ [](/\ \A k \in 1 .. Len(processed) :
               /\ processed[k].confirmation.Success
               /\ processed[k].confirmation.DonationID = processed[k].donation.ID
               /\ \A j \in 1 .. Len(processed) :
                    j # k => processed[j].donation # processed[k].donation
           /\ Len(processed) <= Len(donations)
           /\ Len(applied) <= Len(processed)
           /\ applied = SubSeq(Emitted, 1, Len(applied))
           /\ \A i \in 1 .. Len(donations) : donations[i].Status # "Failed")
    /\ []<>(Len(processed) = Len(donations) /\ Len(applied) = Len(donations))

\* C16 witness: two donations were accepted, taken and confirmed, the one
\* whose request began later first.
C16_Witness ==
    /\ Len(applied) = 2 /\ Len(donations) = 2
    /\ processed[1].donation.TransactionID = TxnID(1)
    /\ processed[2].donation.TransactionID = TxnID(0)

\* C17: the payment processor starts a receipt mail for a donation it
\* processes if and only if the donation is flagged PaymentViaDeeplink:
\* never for the manual channel, exactly one for the automated one.
C17_ReceiptIffDeeplink ==
    [][/\ paymentProcessor
          => LET d == Head(paymentCh)
             IN IF d.PaymentViaDeeplink
                  THEN /\ Len(receiptMails') = Len(receiptMails) + 1
                       /\ SubSeq(receiptMails', 1, Len(receiptMails)) = receiptMails
                       /\ receiptMails'[Len(receiptMails')].To = d.DonorEmail
                       /\ receiptMails'[Len(receiptMails')].DonationID = d.ID
                  ELSE receiptMails' = receiptMails
       /\ receiptMails' # receiptMails => processed' # processed]_vars

\* C17 witness: of two processed donations, the manual one has no receipt
\* mail and the automated one has one.
C17_Witness ==
    /\ Len(processed) = 2 /\ Len(receiptMails) = 1
    /\ ~processed[1].donation.PaymentViaDeeplink
    /\ processed[2].donation.PaymentViaDeeplink

\* what the worker did, the delays left out
Deliveries == SelectSeq(mailLog, LAMBDA e : e.ev # "sleep")

\* C18: for each notification job the worker makes at least one and at most
\* 3 delivery attempts, stops at the first successful attempt and reports
\* success; when all 3 attempts fail it reports failure, drops the job and
\* goes on to the next job in the queue.
C18_AtMostThreeAttemptsStopAtSuccess ==
    \A i \in 1 .. Len(Deliveries) :
        LET e == Deliveries[i]
            last == i = Len(Deliveries)
            next == Deliveries[i + 1]
        IN /\ e.ev = "take" => last \/ next = Event("attempt", 1, next.ok)
           /\ e.ev = "attempt" =>
                /\ e.n \in 1 .. 3
                /\ e.ok => ~last /\ next = Event("done", e.n, TRUE)
                /\ ~e.ok /\ e.n < 3 => last \/ next = Event("attempt", e.n + 1, next.ok)
                /\ ~e.ok /\ e.n = 3 => last \/ next = Event("done", 3, FALSE)
           /\ e.ev = "done" =>
                /\ worker = Idle \/ ~last
                /\ last \/ next.ev = "take"

\* C18 witness: a job was dropped after three failed attempts and the next
\* job was delivered at its second attempt.
C18_Witness ==
    /\ \E i \in 1 .. Len(Deliveries) : Deliveries[i] = Event("done", 3, FALSE)
    /\ Len(Deliveries) > 0
    /\ Deliveries[Len(Deliveries)] = Event("done", 2, TRUE)

\* C19: the retry delay occurs only between two delivery attempts: failed
\* attempt n is followed by a delay of n units and then by attempt n+1;
\* there is no delay before the first attempt and none after the last
\* permitted attempt has failed.
C19_DelayOnlyBetweenAttempts ==
    \A i \in 1 .. Len(mailLog) :
        LET e == mailLog[i]
            last == i = Len(mailLog)
            next == mailLog[i + 1]
        IN /\ e.ev = "take" => last \/ next.ev = "attempt"
           /\ e.ev = "attempt" /\ ~e.ok /\ e.n < 3 =>
                last \/ next = Event("sleep", e.n, TRUE)
           /\ e.ev = "attempt" /\ ~e.ok /\ e.n = 3 => last \/ next.ev = "done"
           /\ e.ev = "sleep" =>
                /\ i > 1 /\ mailLog[i - 1] = Event("attempt", e.n, FALSE)
                /\ last \/ next = Event("attempt", e.n + 1, next.ok)

\* C20: with no transport configured, a delivery attempt fails if and only
\* if the recipient is empty, the subject is empty or the simulate-failure
\* toggle is on.
C20_AttemptFailsIffEmptyOrToggle ==
    [][\A transport \in {"unconfigured", "sent", "error"} :
         emailWorkerAttempt(transport) /\ ~smtpConfigured
         => LET e == mailLog'[Len(mailLog) + 1]
            IN /\ e.ev = "attempt"
               /\ ~e.ok <=> \/ worker.job.To = ""
                            \/ worker.job.Subject = ""
                            \/ emailShouldFail]_vars

\* C20 witness: with no transport configured and the toggle off, an attempt
\* has just failed for the missing subject alone, after a delivered job.
C20_Witness ==
    /\ ~smtpConfigured /\ ~emailShouldFail
    /\ worker.pc = "sleep" /\ worker.job.To # "" /\ worker.job.Subject = ""
    /\ mailLog[Len(mailLog)] = Event("attempt", 1, FALSE)
    /\ \E i \in 1 .. Len(mailLog) : mailLog[i] = Event("done", 1, TRUE)

\* C25: DeletePet of an id the by-ID index holds succeeds and leaves the id
\* absent, so that the same call made again returns NotFound; DeletePet of an
\* absent id returns NotFound and changes no collection and no index.
C25_DeleteTwiceNotFound ==
    [][\A id \in PetIDs :
         DeletePet(id)
         => IF id \in DOMAIN petsByID
              THEN /\ ret' = [op |-> "DeletePet", res |-> "OK"]
                   /\ id \notin DOMAIN petsByID'
                   /\ petsLen' <= petsLen
              ELSE /\ ret' = [op |-> "DeletePet", res |-> "NotFound"]
                   /\ UNCHANGED petVars]_vars

\* C25 witness: every sample pet has been deleted and the DeletePet that
\* followed has returned NotFound.
C25_Witness ==
    /\ ret = [op |-> "DeletePet", res |-> "NotFound"]
    /\ petsByID = EmptyMap
    /\ petsLen = 0

\* the IDs of the live pets, of the by-ID index and of the breed index
LiveIDs == {petsMem[i].ID : i \in 1 .. petsLen}
IndexIDs == DOMAIN petsByID
BreedIDs == UNION {{petsByBreed[b][k] : k \in 1 .. Len(petsByBreed[b])} : b \in DOMAIN petsByBreed}

\* C26: a successful DeletePet(id) leaves id in none of pets, petsByID and
\* petsByBreed, and in every reachable state the IDs of petsByID and those of
\* petsByBreed are the IDs of the live pets.
C26_DeletedIdLeavesEveryIndex ==
    /\ [](IndexIDs = LiveIDs /\ BreedIDs = LiveIDs)
    /\ [][\A id \in PetIDs :
            (DeletePet(id) /\ id \in DOMAIN petsByID)
            => id \notin LiveIDs' \cup IndexIDs' \cup BreedIDs']_vars

\* C27: no two live pets share an ID and petsByID has one entry per live pet.
C27_LivePetIdsUnique ==
    /\ \A i, j \in 1 .. petsLen : petsMem[i].ID = petsMem[j].ID => i = j
    /\ Cardinality(DOMAIN petsByID) = petsLen
    /\ DOMAIN petsByID = LiveIDs

\* a record with the non-empty and non-zero fields of partial written over it
Merged(old, partial) ==
    [f \in DOMAIN old |->
        IF f = "ID" THEN old.ID
        ELSE IF f = "Age" THEN (IF partial.Age # 0 THEN partial.Age ELSE old.Age)
        ELSE IF partial[f] # "" THEN partial[f] ELSE old[f]]

\* C28: UpdatePet(id, partial) on an id no live pet has returns NotFound and
\* changes nothing; on the id of a live pet it returns OK, writes the
\* non-empty and non-zero fields of partial over that pet's record and leaves
\* every other record as it was.
C28_UpdateWritesOnlyGivenFields ==
    [][\A id \in PetIDs, partial \in UpdateInputs :
         UpdatePet(id, partial)
         => IF id \notin LiveIDs
              THEN /\ ret' = [op |-> "UpdatePet", res |-> "NotFound"]
                   /\ UNCHANGED petVars
              ELSE /\ ret' = [op |-> "UpdatePet", res |-> "OK"]
                   /\ petsLen' = petsLen
                   /\ \A i \in 1 .. petsLen :
                        petsMem'[i] = IF petsMem[i].ID = id
                                        THEN Merged(petsMem[i], partial)
                                        ELSE petsMem[i]]_vars

\* the filter list in another order
Reordered(filters, g) == [k \in 1 .. Len(filters) |-> filters[g[k]]]
Orders(filters) ==
    {g \in [1 .. Len(filters) -> 1 .. Len(filters)] :
        \A a, b \in 1 .. Len(filters) : g[a] = g[b] => a = b}

\* the pet passes the filter taken alone
Passes(p, f) == Filter(f, <<p>>) = <<p>>

\* C29: SearchPets and ApplyFilters return exactly the pets of the snapshot,
\* in the snapshot's order, that match the query and pass every filter; the
\* result is the same for every order of the filter list, and the same when
\* the filters narrow first and the query second.
C29_FilterOrderIrrelevant ==
    [][(ret' # ret /\ ret'.op = "SearchPets"
          /\ ~(ret'.query = "" /\ ret'.filters = << >>))
         => LET query == ret'.query
                filters == ret'.filters
         IN /\ ret'.res = "OK"
            /\ ret'.pets = SelectSeq(pets, LAMBDA p :
                              /\ QueryHit(p, query)
                              /\ \A k \in 1 .. Len(filters) : Passes(p, filters[k]))
            /\ ApplyFilters(pets, filters) = SelectSeq(pets, LAMBDA p :
                              \A k \in 1 .. Len(filters) : Passes(p, filters[k]))
            /\ \A g \in Orders(filters) :
                 /\ SearchResult(pets, query, Reordered(filters, g)) = ret'.pets
                 /\ ApplyFilters(pets, Reordered(filters, g)) = ApplyFilters(pets, filters)
            /\ SelectSeq(ApplyFilters(pets, filters), LAMBDA p : QueryHit(p, query))
                 = ret'.pets]_vars

\* C29 witness: a search with a query and two different filters has returned
\* some but not all pets of the snapshot, and each filter alone refuses a pet
\* the other lets pass.
C29_Witness ==
    /\ ret.op = "SearchPets" /\ ret.res = "OK"
    /\ ret.query # ""
    /\ Len(ret.filters) = 2
    /\ \E p \in {pets[i] : i \in 1 .. petsLen} :
          Passes(p, ret.filters[1]) /\ ~Passes(p, ret.filters[2])
    /\ \E p \in {pets[i] : i \in 1 .. petsLen} :
          Passes(p, ret.filters[2]) /\ ~Passes(p, ret.filters[1])
    /\ ret.pets # << >>
    /\ Len(ret.pets) < petsLen

\* the two strings have the same length and, position by position, the same
\* letter in either case
SameIgnoringCase(str, t) ==
    /\ Len(str) = Len(t)
    /\ \A k \in 1 .. Len(str) :
          \/ str[k] = t[k]
          \/ \E j \in 1 .. Len(UpperLetters) :
                {str[k], t[k]} = {UpperLetters[j], LowerLetters[j]}

\* C30: SpeciesFilter returns exactly the pets of its input whose species is
\* the filter's species in any case, StatusFilter exactly those whose status
\* is the filter's status letter for letter, both in the input's order and
\* without adding or repeating a pet.
C30_SpeciesFoldsCaseStatusDoesNot ==
    [][(ret' # ret /\ ret'.op = "SearchPets"
          /\ ret'.query = "" /\ Len(ret'.filters) = 1)
         => LET f == ret'.filters[1]
         IN /\ f.kind = "SpeciesFilter" =>
                 /\ ret'.pets = SelectSeq(pets, LAMBDA p :
                       SameIgnoringCase(Spelling[p.Species], Spelling[f.Species]))
                 /\ SpeciesFilterFilter(f, pets) = ret'.pets
            /\ f.kind = "StatusFilter" =>
                 /\ ret'.pets = SelectSeq(pets, LAMBDA p : p.Status = f.Status)
                 /\ StatusFilterFilter(f, pets) = ret'.pets]_vars

\* C30 witness: the species filter "dog" has returned the two pets of species
\* "Dog" out of three pets, in the order of the list.
C30_Witness ==
    /\ ret.op = "SearchPets" /\ ret.query = ""
    /\ ret.filters = <<SpeciesFilter("dog")>>
    /\ petsLen = 3
    /\ Len(ret.pets) = 2
    /\ ret.pets[1].Species = "Dog" /\ ret.pets[2].Species = "Dog"
    /\ ret.pets[1] = pets[1] /\ ret.pets[2] = pets[3]

\* C21: paymentProcessor, the single consumer of paymentCh, processes the
\* donations in the order in which createDonationHandler submitted them: the
\* k-th donation it dequeues is the k-th donation a sender goroutine was
\* started for.
C21_ProcessedInSubmissionOrder ==
    \A k \in 1 .. Len(processed) :
        k <= Len(submitted) /\ processed[k].donation = submitted[k]

\* the jobs and donations the queues, their senders and their workers hold
\* or have taken
NotificationsHeld == Len(notifySenders) + Len(notificationCh) + JobsTaken
PaymentsHeld == Cardinality(senders) + Len(paymentCh) + Len(processed)
ConfirmationsHeld == Len(paymentConfirmCh) + Len(applied)

\* nothing waits to be sent, nothing is queued, the worker has finished and
\* every job it took was attempted
AllAttempted ==
    /\ notifySenders = << >> /\ notificationCh = << >> /\ worker = Idle
    /\ senders = {} /\ paymentCh = << >> /\ paymentConfirmCh = << >>
    /\ \A i \in 1 .. Len(mailLog) :
          mailLog[i].ev = "take" =>
             i < Len(mailLog) /\ mailLog[i + 1].ev = "attempt"

\* C22: notificationCh never holds more than 100 jobs, paymentCh and
\* paymentConfirmCh never more than 50; a sender that finds its queue full
\* stays blocked with its job; no step loses a job, a donation or a
\* confirmation; and with every goroutine scheduled fairly, every job is
\* eventually dequeued and attempted and every donation processed and
\* confirmed, also when every job before it used up its attempts.
C22_NoJobLostAtSubmission ==
    /\ [](/\ Len(notificationCh) <= 100
          /\ Len(paymentCh) <= 50
          /\ Len(paymentConfirmCh) <= 50
          /\ ConfirmationsHeld = Len(processed))
    /\ [][/\ Len(notificationCh) = 100 => notifySenders' = notifySenders
          /\ Len(paymentCh) = 50 => senders' = senders
          /\ NotificationsHeld' >= NotificationsHeld
          /\ PaymentsHeld' >= PaymentsHeld]_vars
    /\ <>AllAttempted

\* C22 witness: the job whose sender found the queue full has been attempted
\* after each of the 100 jobs queued before it failed three times.
C22_Witness ==
    /\ AllAttempted
    /\ emailShouldFail
    /\ JobsTaken = 100 + MaxWaiting
    /\ Cardinality({i \in 1 .. Len(mailLog) :
                       mailLog[i].ev = "done" /\ ~mailLog[i].ok}) = 100 + MaxWaiting

C24_SharedAccessUnderLock ==
    \A p \in Procs :
        (InText(p) /\ Current(p).op = "shared") => Holds(p)

\* C31: AgeRangeFilter{Min, Max} keeps exactly the pets with
\* Min <= age <= Max, in the order of the list, where a bound of 0 sets no
\* limit on its side; AgeRangeFilter{0, 0} keeps every pet.
C31_AgeRangeInclusiveZeroUnbounded ==
    [][(ret' # ret /\ ret'.op = "SearchPets" /\ ret'.query = ""
          /\ Len(ret'.filters) = 1 /\ ret'.filters[1].kind = "AgeRangeFilter")
         => LET f == ret'.filters[1]
         IN /\ ret'.pets = SelectSeq(pets, LAMBDA p :
                                /\ f.Min # 0 => f.Min <= p.Age
                                /\ f.Max # 0 => p.Age <= f.Max)
            /\ AgeRangeFilterFilter(f, pets) = ret'.pets
            /\ (f.Min = 0 /\ f.Max = 0) => ret'.pets = pets]_vars

\* C31 witness: AgeRangeFilter{2, 3} has kept the pets of age 3 and 2 and
\* dropped the pet of age 1.
C31_Witness ==
    /\ ret.op = "SearchPets" /\ ret.query = ""
    /\ ret.filters = <<AgeRangeFilter(2, 3)>>
    /\ petsLen = 3
    /\ Len(ret.pets) = 2
    /\ ret.pets[1].Age = 3 /\ ret.pets[2].Age = 2

\* C32: SearchPets with an empty query and no filter returns an error and no
\* pets, whatever the repository holds, and changes nothing; with an empty
\* query and one species filter it returns exactly the pets of the snapshot
\* whose species is the filter's, in any case.
C32_EmptySearchRefused ==
    [][(ret' # ret /\ ret'.op = "SearchPets" /\ ret'.query = "")
         => /\ ret'.filters = << >> =>
                 /\ ret' = [op |-> "SearchPets", query |-> "", filters |-> << >>,
                            res |-> "Error", pets |-> << >>]
                 /\ UNCHANGED petVars
            /\ (Len(ret'.filters) = 1 /\ ret'.filters[1].kind = "SpeciesFilter") =>
                 /\ ret'.res = "OK"
                 /\ \A i \in 1 .. Len(ret'.pets) :
                       SameIgnoringCase(Spelling[ret'.pets[i].Species],
                                        Spelling[ret'.filters[1].Species])
                 /\ Len(ret'.pets) =
                       Cardinality({n \in 1 .. petsLen :
                           SameIgnoringCase(Spelling[pets[n].Species],
                                            Spelling[ret'.filters[1].Species])})
                 /\ \A i \in 1 .. Len(ret'.pets) :
                       \E n \in 1 .. petsLen : pets[n] = ret'.pets[i]]_vars

\* C32 witness: a search without query and filters has been refused while
\* the repository holds three pets.
C32_Witness ==
    /\ ret = [op |-> "SearchPets", query |-> "", filters |-> << >>,
              res |-> "Error", pets |-> << >>]
    /\ petsLen = 3

\* C35: the pointer petsByID holds for an id leads to the record whose ID is
\* id, and an UpdatePet(id, partial) that finds the id changes no live pet
\* with another ID.
C35_IndexLeadsToItsRecord ==
    /\ [](\A id \in DOMAIN petsByID : petsMem[petsByID[id]].ID = id)
    /\ [][\A id \in PetIDs, partial \in UpdateInputs :
            (UpdatePet(id, partial) /\ id \in DOMAIN petsByID)
            => \A i \in 1 .. petsLen :
                  petsMem[i].ID # id => petsMem'[i] = petsMem[i]]_vars

\* C36: no two users share an ID and no two donations share an ID.
C36_RecordIdsUnique ==
    /\ \A i, j \in 1 .. Len(users) : users[i].ID = users[j].ID => i = j
    /\ \A i, j \in 1 .. Len(donations) : donations[i].ID = donations[j].ID => i = j

\* the digests hashPassword makes of the passwords in use: the plaintext
\* sits between the two constant parts, hashed once
Digests == {hashPassword(pw) : pw \in Passwords}
HashedOnce(digest) == digest \in Digests /\ digest \notin Passwords

\* C34: the account a verify creates carries the digest of the pending
\* record it read, a digest made by one hashPassword call; right after the
\* verify Login accepts the password of that registration and refuses
\* every other one; every stored account and pending record holds a digest.
C34_VerifyKeepsPendingDigest ==
    /\ [][\A p \in Procs :
            /\ (verifyEmailHandlerCheck(p) /\ handler'[p].pc = "verifyCreate")
               => /\ HashedOnce(handler'[p].user.Password)
                  /\ handler'[p].user.Password = handler[p].pending.HashedPassword
            /\ verifyEmailHandlerCreate(p)
               => /\ users'[Len(users')] = handler[p].user
                  /\ ret'.email = handler[p].email
                  /\ \E pw \in Passwords : ~(LoginRefused(ret.email, pw))'
                  /\ \A pw \in Passwords :
                        (LoginRefused(ret.email, pw))'
                        <=> handler[p].user.Password # hashPassword(pw)]_vars
    /\ [](/\ \A i \in 1 .. Len(users) : HashedOnce(users[i].Password)
          /\ \A e \in DOMAIN pendingRegs : HashedOnce(pendingRegs[e].HashedPassword))

\* C34 witness: a verify has just created the account of a registration made
\* with pass123, and Login takes pass123 and refuses pass456.
C34_Witness ==
    /\ ret.op = "verify" /\ ret.res = "Created"
    /\ Len(MailsTo(ret.email)) > 0
    /\ users[usersByEmail[ret.email]].Password = hashPassword("pass123")
    /\ ~LoginRefused(ret.email, "pass123")
    /\ LoginRefused(ret.email, "pass456")

\* the emails with a stored account
AccountEmails == {users[i].Email : i \in 1 .. Len(users)}

\* C38: Login for an email with a pending registration and no account is
\* refused with InvalidCredentials whatever the password and issues nothing;
\* a Login that succeeds is for an email with an account, and every token
\* ever issued names the email of an account.
C38_PendingLoginRefused ==
    /\ [][\A e \in LoginEmails, pw \in LoginPasswords :
            (ret'.op = "Login" /\ ret'.email = e /\ Login(e, pw))
            => /\ (e \in DOMAIN pendingRegs /\ e \notin AccountEmails)
                  => /\ ret'.res = "InvalidCredentials"
                     /\ UNCHANGED <<tokenStore, issued>>
               /\ ret'.res = "OK" => e \in AccountEmails]_vars
    /\ [](\A t \in issued : t.Email \in AccountEmails)

\* C38 witness: a Login that entered the critical section was refused for an
\* email that waits for its verification and has no account.
C38_Witness ==
    /\ ret.op = "Login" /\ ret.res = "InvalidCredentials" /\ ret.locked
    /\ ret.email \in DOMAIN pendingRegs
    /\ ret.email \notin AccountEmails
    /\ pendingRegs[ret.email].HashedPassword = hashPassword("pass123")
    /\ issued = {}

\* C39: a verify whose code differs from the pending one, before the expiry,
\* answers CodeMismatch and leaves the pending registrations and the users
\* as they were; a verify with the pending code before the expiry goes on to
\* create the account.
C39_WrongCodeChangesNothing ==
    [][\A p \in Procs :
         (verifyEmailHandlerCheck(p) /\ ~After(handler[p].pending.ExpiresAt))
         => IF handler[p].code # handler[p].pending.Code
              THEN /\ ret' = [op |-> "verify", email |-> handler[p].email,
                              code |-> handler[p].code, res |-> "CodeMismatch"]
                   /\ UNCHANGED <<pendingRegs, users, usersByEmail>>
              ELSE /\ handler'[p].pc = "verifyCreate"
                   /\ handler'[p].user.Email = handler[p].pending.Email]_vars

\* C39 witness: a wrong code was refused and the pending registration is
\* still there, unexpired, with its own code, and no account exists.
C39_Witness ==
    /\ ret.op = "verify" /\ ret.res = "CodeMismatch"
    /\ ret.email \in DOMAIN pendingRegs
    /\ pendingRegs[ret.email].Code # ret.code
    /\ ~After(pendingRegs[ret.email].ExpiresAt)
    /\ users = << >>

\* the outcome of the requests: the last response and what the handlers stored
OutcomeVars == <<ret, users, usersByEmail, pendingRegs, tokenStore, otpMails>>

C37_SearchOverSnapshot ==
    [][\A p \in Procs :
         /\ (handler[p] = Idle /\ handler'[p].pc = "search")
            => handler'[p].petsCopy = pets
         /\ (handler[p].pc = "search" /\ handler'[p].pc = "search")
            => handler'[p].petsCopy = handler[p].petsCopy
         /\ SearchPetsFilter(p)
            => /\ ret'.pets = SearchResult(handler[p].petsCopy, handler[p].query,
                                           handler[p].filters)
               /\ \A i \in 1 .. Len(ret'.pets) :
                     \E j \in 1 .. Len(handler[p].petsCopy) :
                        ret'.pets[i] = handler[p].petsCopy[j]
               /\ UNCHANGED petVars]_vars

\* C37 witness: a search returned a pet of its snapshot that a concurrent
\* DeletePet or UpdatePet has since removed from the live pets or changed.
C37_Witness ==
    /\ ret.op = "SearchPets" /\ ret.res = "OK"
    /\ \E i \in 1 .. Len(ret.pets) :
          \A j \in 1 .. petsLen : petsMem[j] # ret.pets[i]

\* every queued donation has been processed and its confirmation applied
PaymentsDrained ==
    /\ senders = {} /\ paymentCh = << >> /\ paymentConfirmCh = << >>
    /\ Len(applied) = Len(donations)

====
